---------------------------- MODULE Spec2Model ----------------------------
(***************************************************************************)
(* A model of the calendar assistant: the slot finder of the function      *)
(* executor, the session lifecycle of the message handler, and the         *)
(* per-message turn that gates, validates and executes calendar actions.   *)
(*                                                                         *)
(* The specifications share the module's variables:                        *)
(*   SpecSlots    the pure slot finder applied to bounded inputs           *)
(*   SpecSession  concurrent getOrCreateSession handlers and the clock     *)
(*   Spec         one message turn against the remote calendar and mirror  *)
(*   SpecAuth     authorization links, the callback route and the sweep    *)
(*   SpecClient   calendar calls of two identities on the shared client    *)
(*   SpecUpdate   two concurrent updates of one event                      *)
(*   SpecNlp      the rule-based processor and the fallback's routing      *)
(*   SpecStore    message turns over a database that may reject a write    *)
(*   SpecMessage  handleMessage from the transport event to the reply      *)
(*   SpecRestart  concurrent restarts of the chat client                   *)
(***************************************************************************)
EXTENDS Integers, Sequences, FiniteSets, TLC

VARIABLES
    \* ---- slot finder (FunctionExecutor.findAvailableSlots) ----
    sfStart,        \* startTime of the working window (ms since local midnight)
    sfEnd,          \* endTime of the working window
    sfEvents,       \* existingEvents, in the order the caller passes them
    sfDuration,     \* durationMinutes
    sfPreferred,    \* preferredTimes, a set of <<hh, mm>> wall-clock values
    sfSlots,        \* the returned slot sequence
    sfPc,           \* "ready" before the call, "done" after it
    \* ---- clock and database (Database) ----
    now,            \* wall clock, in ticks
    users,          \* users table: a set of rows, phone_number unique
    sessions,       \* sessions table: a set of rows
    \* ---- concurrent message handlers (MessageHandler.handleMessage) ----
    hPc,            \* handler -> the await it is suspended at
    hPhone,         \* handler -> message.from
    hSession,       \* handler -> its local `session` (a row id, or NoSession)
    hExpiresAt,     \* handler -> its local `expiresAt` (a Date, in ticks)
    \* ---- the remote calendar and its local mirror ----
    remote,         \* the user's events at the calendar provider
    issuedIds,      \* how many event ids the provider has issued
    mirror,         \* calendar_events table: a set of rows
    \* ---- one natural-language turn (handleNaturalLanguageMessage) ----
    tPc,            \* the await the turn is suspended at
    tUser,          \* the `user` row read when the message arrived
    tBatch,         \* geminiResponse.functionCalls
    tTodo,          \* function calls of the batch not yet started
    tCall,          \* the function call being executed
    tOp,            \* the provider request being prepared or in flight
    tEvents,        \* local `events` / `existingEvent` of the executing handler
    tResults,       \* functionResults
    tLog,           \* the provider requests of the step in progress, with their outcome
    tReply,         \* the reply the rule-based fallback is about to send
    \* the authorization flow
    pendingAuth,    \* MessageHandler.authService.pendingAuth: phone -> entry
    pendingTable,   \* whether the database file has a pending_auth table
    pendingRows,    \* the rows of pending_auth: phone -> row
    authStates,     \* the state tokens of the links sent to users
    consumed,       \* the state tokens of the callbacks that succeeded
    cbPc,           \* position of the callback request in handleGoogleCallback
    cbState,        \* its `state` query parameter
    cbPending,      \* its local `pendingRequest`
    \* the OAuth2 client shared by the calls of one CalendarService
    clientCredentials,  \* oauth2Client.credentials
    cPc,            \* position of each identity's calendar call
    cOp,            \* the CalendarService method each identity is in
    cBundle,        \* the `credentials` a refresh returned to each identity
    requests,       \* the provider requests sent: on whose behalf, with whose bundle
    \* concurrent calls of updateEvent on one event
    uPc,            \* position of each call in updateEvent
    uArgs,          \* its function-call arguments
    uExisting,      \* its local `existingEvent`
    \* the language services
    systemPrompt,   \* GeminiService.systemPrompt, built by the constructor
    nText,          \* the message text given to NLPProcessor.processMessage
    nResult,        \* the `nlpResult` it returned
    nPc,            \* position of the message in handleFallbackNLP
    \* ---- one message in handleMessage (MessageHandler) ----
    mPc,            \* the await handleMessage is suspended at
    mKind,          \* what message.from names: a chat, a group, a broadcast list
    mPhone,         \* message.from
    mText,          \* message.body, by the branch it takes
    mNew,           \* whether the identity had no users row when the message arrived
    mSession,       \* its local `session` (a row id, or NoSession)
    mResolved,      \* whether the text was given to geminiService.processMessage
    mReplies,       \* the calls of sendMessage made for the message, in order
    \* ---- the chat client (WhatsAppProductivityBot) ----
    whatsappClient, \* this.whatsappClient: the client constructed last
    issuedClients,  \* how many clients have been constructed
    liveClients,    \* the clients initialized and not destroyed
    readyClients,   \* the live clients that have emitted 'ready'
    rPc,            \* restartWhatsApp call -> the await it is suspended at
    rClient,        \* restartWhatsApp call -> the client it is destroying
    deliveries      \* handleMessage calls made for the inbound message in hand

slotVars == <<sfStart, sfEnd, sfEvents, sfDuration, sfPreferred, sfSlots, sfPc>>

dbVars == <<now, users, sessions>>

handlerVars == <<hPc, hPhone, hSession, hExpiresAt>>

calendarVars == <<remote, issuedIds, mirror>>

turnVars == <<tPc, tUser, tBatch, tTodo, tCall, tOp, tEvents, tResults, tLog, tReply>>

authVars ==
    <<pendingAuth, pendingTable, pendingRows, authStates, consumed, cbPc, cbState, cbPending>>

clientVars == <<clientCredentials, cPc, cOp, cBundle, requests>>

updateVars == <<uPc, uArgs, uExisting>>

nlpVars == <<systemPrompt, nText, nResult, nPc>>

msgVars == <<mPc, mKind, mPhone, mText, mNew, mSession, mResolved, mReplies>>

restartVars ==
    <<whatsappClient, issuedClients, liveClients, readyClients, rPc, rClient, deliveries>>

edgeVars == <<msgVars, restartVars>>

flowVars == <<authVars, clientVars, updateVars, nlpVars, edgeVars>>

vars == <<slotVars, dbVars, handlerVars, calendarVars, turnVars, flowVars>>

-----------------------------------------------------------------------------
(* Generic helpers *)

Min(a, b) == IF a <= b THEN a ELSE b

Max(a, b) == IF a >= b THEN a ELSE b

SeqToSet(s) == {s[i] : i \in 1..Len(s)}

\* All sequences over S of length at most n.
SeqsUpTo(S, n) == UNION {[1..k -> S] : k \in 0..n}

-----------------------------------------------------------------------------
(* The parts of the state a specification does not exercise stay as        *)
(* constructed: no call of the slot finder, an empty database, no message  *)
(* in flight.                                                              *)

\* Concurrent invocations of handleMessage (the 'message' event does not
\* wait for the previous handler).
NumHandlers == 2

Handlers == 1..NumHandlers

Phones == {"p1", "p2"}

\* getActiveSession found no row.
NoSession == 0

SlotsIdle ==
    /\ sfStart = 0 /\ sfEnd = 0 /\ sfEvents = <<>> /\ sfDuration = 0
    /\ sfPreferred = {} /\ sfSlots = <<>> /\ sfPc = "idle"

DbInit ==
    /\ now = 0
    /\ users = {}
    /\ sessions = {}

HandlersIdle ==
    /\ hPc = [h \in Handlers |-> "idle"]
    /\ hPhone = [h \in Handlers |-> "p1"]
    /\ hSession = [h \in Handlers |-> NoSession]
    /\ hExpiresAt = [h \in Handlers |-> 0]

\* INSERT INTO users (phone_number, name): google_tokens is NULL. The column
\* holds no bundle (NULL) or the JSON text of one.
NoTokens == <<>>

\* No event id (args.eventId absent).
NoId == 0

\* args.location is undefined. A supplied location is <<text>>.
NoLocation == <<>>

\* No function call is being executed.
NoCall ==
    [name |-> "none", title |-> <<>>, startDateTime |-> -1, endDateTime |-> -1,
     eventId |-> NoId, searchTitle |-> <<>>, timeRange |-> "absent",
     location |-> NoLocation]

NoOp == [op |-> "none", id |-> NoId, range |-> [start |-> -1, end |-> -1]]

NoUserRow == [phone_number |-> "", auth_status |-> "", google_tokens |-> NoTokens]

CalendarInit ==
    /\ remote = {}
    /\ issuedIds = 0
    /\ mirror = {}

TurnIdle ==
    /\ tPc = "idle"
    /\ tUser = NoUserRow
    /\ tBatch = <<>>
    /\ tTodo = 0
    /\ tCall = NoCall
    /\ tOp = NoOp
    /\ tEvents = {}
    /\ tResults = <<>>
    /\ tLog = <<>>
    /\ tReply = "none"

\* No state token (the callback is not running, nothing was found).
NoState == [phoneNumber |-> "", timestamp |-> -1]

\* pendingAuth.get(phoneNumber) is undefined.
NoPending == [state |-> NoState, expires |-> -1]

\* No row of pending_auth for the phone number.
NoPendingRow == [state |-> NoState, expires_at |-> <<>>]

AuthIdle ==
    /\ pendingAuth = [p \in Phones |-> NoPending]
    /\ pendingTable = FALSE
    /\ pendingRows = [p \in Phones |-> NoPendingRow]
    /\ authStates = {}
    /\ consumed = {}
    /\ cbPc = "idle"
    /\ cbState = NoState
    /\ cbPending = NoState

ClientIdle ==
    /\ clientCredentials = NoTokens
    /\ cPc = [p \in Phones |-> "idle"]
    /\ cOp = [p \in Phones |-> "none"]
    /\ cBundle = [p \in Phones |-> NoTokens]
    /\ requests = {}

UpdateIdle ==
    /\ uPc = [h \in Handlers |-> "idle"]
    /\ uArgs = [h \in Handlers |-> NoCall]
    /\ uExisting = [h \in Handlers |-> {}]

\* chrono.parse found no date in the text.
NoDate == -1

\* A text in which none of the processor's patterns matches.
NoText ==
    [actions |-> {}, eventType |-> "general", parsed |-> [start |-> NoDate, end |-> NoDate],
     tomorrow |-> FALSE, timeWord |-> "none", title |-> FALSE, location |-> FALSE,
     attendees |-> FALSE]

\* The `dateTime` of a result without a date (null).
NoDateTime == [start |-> NoDate, end |-> NoDate]

\* No message has been processed.
NoResult ==
    [action |-> "none", eventType |-> "general", dateTime |-> NoDateTime, title |-> FALSE,
     location |-> FALSE, attendees |-> FALSE, isValid |-> FALSE, confidence |-> 0]

\* GeminiService.initializeToolDefinitions: the template literal of the
\* system prompt is evaluated once, when the constructor runs.
initializeToolDefinitions == [currentDateTime |-> now]

NlpIdle ==
    /\ systemPrompt = initializeToolDefinitions
    /\ nText = NoText
    /\ nResult = NoResult
    /\ nPc = "idle"

\* No message is being routed.
MsgIdle ==
    /\ mPc = "idle"
    /\ mKind = "none"
    /\ mPhone = ""
    /\ mText = "none"
    /\ mNew = FALSE
    /\ mSession = NoSession
    /\ mResolved = FALSE
    /\ mReplies = <<>>

\* No chat client has been constructed.
NoClient == 0

\* What calls restartWhatsApp: the timer set by a 'disconnected' event, the
\* memory check of setupProcessMonitoring, and handleWhatsAppError.
Triggers == {"disconnect", "memory", "crash"}

RestartIdle ==
    /\ whatsappClient = NoClient
    /\ issuedClients = 0
    /\ liveClients = {}
    /\ readyClients = {}
    /\ rPc = [t \in Triggers |-> "idle"]
    /\ rClient = [t \in Triggers |-> NoClient]
    /\ deliveries = 0

EdgeIdle == MsgIdle /\ RestartIdle

FlowIdle == AuthIdle /\ ClientIdle /\ UpdateIdle /\ NlpIdle /\ EdgeIdle

-----------------------------------------------------------------------------
(* Bounds of the slot-finder inputs *)

\* Most busy intervals passed in one call.
MaxBusy == 2

\* Longest busy interval, in hours.
MaxBusyHours == 2

\* Hours before the working window's start and after its end at which a busy
\* interval may begin (getTimeSuggestions passes the whole day's events).
Margin == 2

-----------------------------------------------------------------------------
(* Time arithmetic of findAvailableSlots *)

MsPerMinute == 60 * 1000

MsPerHour == 60 * MsPerMinute

\* getTimeSuggestions: date.setHours(9, 0, 0, 0)
WorkStartHour == 9

\* getTimeSuggestions: date.setHours(17, 0, 0, 0)
WorkEndHour == 17

\* new Date(slot.start).toTimeString().slice(0, 5): the local "HH:MM" of a
\* timestamp, as the pair <<hh, mm>>.
TimeOfDay(ms) == <<(ms \div MsPerHour) % 24, (ms \div MsPerMinute) % 60>>

\* event.start_time && event.end_time: both present.
NoTime == -1

HasTimes(event) == event.start_time # NoTime /\ event.end_time # NoTime

-----------------------------------------------------------------------------
(* FunctionExecutor.findAvailableSlots *)

\* The comparator of the event sort:
\* (a, b) => new Date(a.start_time) - new Date(b.start_time)
CompareStart(a, b) == a.start_time - b.start_time

\* Array.prototype.sort is stable: an element goes after every element that
\* does not compare greater than it.
RECURSIVE InsertEvent(_, _)
InsertEvent(sorted, e) ==
    IF sorted = <<>> THEN <<e>>
    ELSE IF CompareStart(Head(sorted), e) > 0 THEN <<e>> \o sorted
    ELSE <<Head(sorted)>> \o InsertEvent(Tail(sorted), e)

\* existingEvents.filter(event => event.start_time && event.end_time)
\*               .sort((a, b) => new Date(a.start_time) - new Date(b.start_time))
RECURSIVE SortEvents(_)
SortEvents(events) ==
    IF events = <<>> THEN <<>>
    ELSE InsertEvent(SortEvents(SubSeq(events, 1, Len(events) - 1)),
                     events[Len(events)])

SortedEvents(existingEvents) == SortEvents(SelectSeq(existingEvents, HasTimes))

\* currentTime < limit && (limit - currentTime) >= duration
SlotFitsOnlyBefore(currentTime, limit, duration) == currentTime < limit

SlotFits(currentTime, limit, duration) ==
    currentTime < limit /\ (limit - currentTime) >= duration

\* The slot pushed when there is room: slotEnd = Math.min(limit, currentTime + duration).
\* start and end are ISO strings of millisecond timestamps, which new Date()
\* reads back exactly; duration is Math.floor((slotEnd - currentTime) / (60 * 1000)).
MakeSlot(currentTime, limit, duration) ==
    LET slotEnd == Min(limit, currentTime + duration)
    IN  [start |-> currentTime, end |-> slotEnd,
         duration |-> (slotEnd - currentTime) \div MsPerMinute]

\* currentTime = new Date(Math.max(currentTime, eventEnd))
MovePast(currentTime, eventEnd) == Max(currentTime, eventEnd)

\* The for loop over sortedEvents: the slots pushed and the final currentTime.
RECURSIVE SweepEvents(_, _, _, _)
SweepEvents(sortedEvents, currentTime, duration, slots) ==
    IF sortedEvents = <<>> THEN [slots |-> slots, currentTime |-> currentTime]
    ELSE LET event == Head(sortedEvents)
             pushed == IF SlotFits(currentTime, event.start_time, duration)
                       THEN Append(slots, MakeSlot(currentTime, event.start_time, duration))
                       ELSE slots
         IN  SweepEvents(Tail(sortedEvents), MovePast(currentTime, event.end_time),
                         duration, pushed)

\* The slots array before the preferred-time sort.
EmittedSlots(startTime, endTime, existingEvents, durationMinutes) ==
    LET duration == durationMinutes * 60 * 1000
        swept == SweepEvents(SortedEvents(existingEvents), startTime, duration, <<>>)
    IN  IF SlotFits(swept.currentTime, endTime, duration)
        THEN Append(swept.slots, MakeSlot(swept.currentTime, endTime, duration))
        ELSE swept.slots

\* The comparator of the preferred-time sort.
ComparePreferredInverted(a, b, preferredTimes) ==
    LET aPreferred == TimeOfDay(a.start) \in preferredTimes
        bPreferred == TimeOfDay(b.start) \in preferredTimes
    IN  IF aPreferred /\ ~bPreferred THEN 1
        ELSE IF ~aPreferred /\ bPreferred THEN -1
        ELSE 0

ComparePreferred(a, b, preferredTimes) ==
    LET aPreferred == TimeOfDay(a.start) \in preferredTimes
        bPreferred == TimeOfDay(b.start) \in preferredTimes
    IN  IF aPreferred /\ ~bPreferred THEN -1
        ELSE IF ~aPreferred /\ bPreferred THEN 1
        ELSE 0

RECURSIVE InsertSlot(_, _, _)
InsertSlot(sorted, s, preferredTimes) ==
    IF sorted = <<>> THEN <<s>>
    ELSE IF ComparePreferred(Head(sorted), s, preferredTimes) > 0 THEN <<s>> \o sorted
    ELSE <<Head(sorted)>> \o InsertSlot(Tail(sorted), s, preferredTimes)

\* slots.sort((a, b) => ...), stable
RECURSIVE SortSlots(_, _)
SortSlots(slots, preferredTimes) ==
    IF slots = <<>> THEN <<>>
    ELSE InsertSlot(SortSlots(SubSeq(slots, 1, Len(slots) - 1), preferredTimes),
                    slots[Len(slots)], preferredTimes)

findAvailableSlots(startTime, endTime, existingEvents, durationMinutes, preferredTimes) ==
    LET slots == EmittedSlots(startTime, endTime, existingEvents, durationMinutes)
    IN  IF preferredTimes # {} THEN SortSlots(slots, preferredTimes) ELSE slots

-----------------------------------------------------------------------------
(* SpecSlots: findAvailableSlots applied to bounded inputs *)

\* Hours at which a busy interval may begin.
BusyStartHours == (WorkStartHour - Margin)..(WorkEndHour + Margin)

BusyIntervals ==
    {[start_time |-> h * MsPerHour, end_time |-> (h + l) * MsPerHour] :
        h \in BusyStartHours, l \in 1..MaxBusyHours}

Durations == {30, 60, 120}

PreferredChoices == SUBSET {<<11, 0>>, <<15, 0>>}

SlotsInit ==
    /\ sfStart = WorkStartHour * MsPerHour
    /\ sfEnd = WorkEndHour * MsPerHour
    /\ sfEvents \in SeqsUpTo(BusyIntervals, MaxBusy)
    /\ sfDuration \in Durations
    /\ sfPreferred \in PreferredChoices
    /\ sfSlots = <<>>
    /\ sfPc = "ready"
    /\ DbInit
    /\ HandlersIdle
    /\ CalendarInit
    /\ TurnIdle
    /\ FlowIdle

\* One call of findAvailableSlots on the drawn inputs.
FindSlots ==
    /\ sfPc = "ready"
    /\ sfSlots' = findAvailableSlots(sfStart, sfEnd, sfEvents, sfDuration, sfPreferred)
    /\ sfPc' = "done"
    /\ UNCHANGED <<sfStart, sfEnd, sfEvents, sfDuration, sfPreferred>>
    /\ UNCHANGED <<dbVars, handlerVars, calendarVars, turnVars, flowVars>>

SlotsNext == FindSlots

SpecSlots == SlotsInit /\ [][SlotsNext]_vars

-----------------------------------------------------------------------------
(* Slot-finder properties *)

\* The busy intervals of a call: the events that carry both times.
BusySet == {e \in SeqToSet(sfEvents) : HasTimes(e)}

Overlaps(slot, e) == slot.start < e.end_time /\ e.start_time < slot.end

\* C6: every slot returned by findAvailableSlots has length at least D and
\* overlaps no busy interval.
C6_SlotsLongEnoughAndFree ==
    sfPc = "done" =>
        \A i \in 1..Len(sfSlots) :
            /\ sfSlots[i].end - sfSlots[i].start >= sfDuration * MsPerMinute
            /\ sfSlots[i].duration >= sfDuration
            /\ \A e \in BusySet : ~Overlaps(sfSlots[i], e)

\* A call that returned a slot between two busy intervals lying in the window.
C6_Witness ==
    /\ sfPc = "done"
    /\ Len(sfSlots) >= 2
    /\ \E e1, e2 \in BusySet :
          /\ sfStart < e1.start_time /\ e1.end_time < e2.start_time /\ e2.end_time < sfEnd
          /\ \E i \in 1..Len(sfSlots) :
                e1.end_time <= sfSlots[i].start /\ sfSlots[i].end <= e2.start_time

\* A point of the working window that no busy interval covers.
FreeAt(t) ==
    /\ sfStart <= t /\ t < sfEnd
    /\ \A e \in BusySet : ~(e.start_time <= t /\ t < e.end_time)

\* The starts of the maximal free gaps of the working window.
GapStarts ==
    {t \in {sfStart} \cup {e.end_time : e \in BusySet} :
        FreeAt(t) /\ (t = sfStart \/ ~FreeAt(t - 1))}

\* The end of the free gap that starts at t.
GapEnd(t) ==
    LET later == {sfEnd} \cup {e.start_time : e \in {b \in BusySet : b.start_time > t}}
    IN  CHOOSE m \in later : \A x \in later : m <= x

\* The elements of a set of timestamps in ascending order.
RECURSIVE Ascending(_)
Ascending(S) ==
    IF S = {} THEN <<>>
    ELSE LET m == CHOOSE x \in S : \A y \in S : x <= y
         IN  <<m>> \o Ascending(S \ {m})

\* One slot of length D at the start of each free gap of length >= D.
GapSlots ==
    LET D == sfDuration * MsPerMinute
        starts == Ascending({t \in GapStarts : GapEnd(t) - t >= D})
    IN  [i \in 1..Len(starts) |->
            [start |-> starts[i], end |-> starts[i] + D, duration |-> sfDuration]]

\* The scenario of the specification: busy 10:00-11:00 and 14:00-15:00, D = 60.
ScenarioEvents ==
    <<[start_time |-> 10 * MsPerHour, end_time |-> 11 * MsPerHour],
      [start_time |-> 14 * MsPerHour, end_time |-> 15 * MsPerHour]>>

ScenarioSlots ==
    <<[start |-> 9 * MsPerHour, end |-> 10 * MsPerHour, duration |-> 60],
      [start |-> 11 * MsPerHour, end |-> 12 * MsPerHour, duration |-> 60],
      [start |-> 15 * MsPerHour, end |-> 16 * MsPerHour, duration |-> 60]>>

\* C7: with no preferred times the result is, in ascending start order, one
\* slot of length D at the start of each free gap of the working window of
\* length >= D; on the scenario it is 09:00-10:00, 11:00-12:00, 15:00-16:00.
C7_OneSlotPerFreeGap ==
    (sfPc = "done" /\ sfPreferred = {}) =>
        /\ sfSlots = GapSlots
        /\ (sfEvents = ScenarioEvents /\ sfDuration = 60) => sfSlots = ScenarioSlots

\* C7, the scenario alone.
C7_Scenario ==
    (sfPc = "done" /\ sfPreferred = {} /\ sfEvents = ScenarioEvents /\ sfDuration = 60)
        => sfSlots = ScenarioSlots

IsPreferred(slot) == TimeOfDay(slot.start) \in sfPreferred

IsNotPreferred(slot) == ~IsPreferred(slot)

\* The slots the sweep emitted, before any reordering.
Emitted == EmittedSlots(sfStart, sfEnd, sfEvents, sfDuration)

\* C8: with preferred times the result is the stable partition of the emitted
\* slots: the slots starting at a preferred time in their emitted order, then
\* the others in their emitted order.
C8_StablePartition ==
    (sfPc = "done" /\ sfPreferred # {}) =>
        sfSlots = SelectSeq(Emitted, IsPreferred) \o SelectSeq(Emitted, IsNotPreferred)

\* A call whose preferred times moved two slots ahead of an earlier one.
C8_Witness ==
    /\ sfPc = "done"
    /\ sfPreferred # {}
    /\ Len(sfSlots) >= 3
    /\ sfSlots # Emitted
    /\ IsPreferred(sfSlots[1]) /\ IsPreferred(sfSlots[2]) /\ ~IsPreferred(sfSlots[3])

-----------------------------------------------------------------------------
(* Clock and timestamp texts *)

\* Clock ticks in 24 hours.
TicksPerDay == 2

\* Last tick of the clock.
MaxTime == 4

\* Most session rows written in one behaviour.
MaxSessions == 2

\* 24 * 60 * 60 * 1000 ms: the session lifetime, in ticks.
SessionTtl == TicksPerDay

\* The character after the date: 'T' in Date.toISOString() ("...-01T08:50:00.000Z")
SepT == 84

\* and ' ' in SQLite's datetime('now') and CURRENT_TIMESTAMP ("...-01 08:50:00").
SepSpace == 32

\* A timestamp text, field by field: the date, the separator character, the
\* time of day.
toISOString(t) == <<t \div TicksPerDay, SepT, t % TicksPerDay>>

DatetimeNow(t) == <<t \div TicksPerDay, SepSpace, t % TicksPerDay>>

\* The Date an ISO text denotes.
ParseISO(text) == text[1] * TicksPerDay + text[3]

\* SQLite's comparison of two TEXT values (BINARY collation): the first
\* differing character decides.
RECURSIVE TextGreater(_, _)
TextGreater(a, b) ==
    IF a = <<>> \/ b = <<>> THEN a # <<>>
    ELSE IF Head(a) # Head(b) THEN Head(a) > Head(b)
    ELSE TextGreater(Tail(a), Tail(b))

-----------------------------------------------------------------------------
(* Database: users and sessions *)

\* INSERT INTO users (phone_number, name): auth_status defaults to 'pending',
\* google_tokens to NULL.
NewUserRow(phone) ==
    [phone_number |-> phone, auth_status |-> "pending", google_tokens |-> NoTokens]

\* getUserByPhone: SELECT * FROM users WHERE phone_number = ? (no row, or one)
getUserByPhone(phone) == {u \in users : u.phone_number = phone}

\* WHERE phone_number = ? AND status = 'active' AND expires_at > datetime('now')
MatchesActive(row, phone, t) ==
    /\ row.phone_number = phone
    /\ row.status = "active"
    /\ TextGreater(row.expires_at, DatetimeNow(t))

\* getActiveSession: ORDER BY created_at DESC LIMIT 1. The rows the query may
\* return (rows of equal created_at come in either order); empty when no row
\* matches.
getActiveSession(phone, t) ==
    LET rows == {r \in sessions : MatchesActive(r, phone, t)}
    IN  {r \in rows : \A q \in rows : ~TextGreater(q.created_at, r.created_at)}

\* createSession: INSERT INTO sessions (id, user_id, phone_number, expires_at);
\* status, created_at and last_activity take their defaults.
SessionRow(id, phone, expiresAt, t) ==
    [id |-> id, phone_number |-> phone, status |-> "active",
     created_at |-> DatetimeNow(t), expires_at |-> toISOString(expiresAt),
     last_activity |-> DatetimeNow(t)]

\* updateSessionActivity: UPDATE sessions SET last_activity = CURRENT_TIMESTAMP WHERE id = ?
updateSessionActivity(rows, id, t) ==
    {IF r.id = id THEN [r EXCEPT !.last_activity = DatetimeNow(t)] ELSE r : r \in rows}

-----------------------------------------------------------------------------
(* MessageHandler.handleMessage up to the session: getOrCreateSession and   *)
(* updateSessionActivity, one action per await                              *)

\* The handlers that may still write a session row.
MayCreate == {h \in Handlers : hPc[h] \in {"lookup", "getUser", "createUser", "createSession"}}

\* A message from an individual chat arrives and its handler starts.
Receive(h, phone) ==
    /\ hPc[h] = "idle"
    /\ Cardinality(sessions) + Cardinality(MayCreate) < MaxSessions
    /\ hPc' = [hPc EXCEPT ![h] = "lookup"]
    /\ hPhone' = [hPhone EXCEPT ![h] = phone]
    /\ hSession' = [hSession EXCEPT ![h] = NoSession]
    /\ UNCHANGED <<hExpiresAt, dbVars, slotVars, flowVars, calendarVars, turnVars>>

\* let session = await this.database.getActiveSession(phoneNumber); without a
\* session, expiresAt = new Date(Date.now() + 24h) is taken right here.
LookupSession(h) ==
    /\ hPc[h] = "lookup"
    /\ LET found == getActiveSession(hPhone[h], now)
       IN  \/ /\ found = {}
              /\ hExpiresAt' = [hExpiresAt EXCEPT ![h] = now + SessionTtl]
              /\ hPc' = [hPc EXCEPT ![h] = "getUser"]
              /\ UNCHANGED hSession
           \/ \E r \in found :
                 /\ hSession' = [hSession EXCEPT ![h] = r.id]
                 /\ hPc' = [hPc EXCEPT ![h] = "touch"]
                 /\ UNCHANGED hExpiresAt
    /\ UNCHANGED <<hPhone, dbVars, slotVars, flowVars, calendarVars, turnVars>>

\* let user = await this.database.getUserByPhone(phoneNumber)
GetUser(h) ==
    /\ hPc[h] = "getUser"
    /\ hPc' = [hPc EXCEPT ![h] =
                 IF getUserByPhone(hPhone[h]) = {} THEN "createUser" ELSE "createSession"]
    /\ UNCHANGED <<hPhone, hSession, hExpiresAt, dbVars, slotVars, flowVars, calendarVars, turnVars>>

\* await this.database.createUser(phoneNumber): phone_number is UNIQUE, so the
\* insert throws when a racing handler created the user; getOrCreateSession
\* then returns null and the handler replies 'Unable to create session'.
CreateUser(h) ==
    /\ hPc[h] = "createUser"
    /\ IF getUserByPhone(hPhone[h]) = {}
       THEN /\ users' = users \cup {NewUserRow(hPhone[h])}
            /\ hPc' = [hPc EXCEPT ![h] = "createSession"]
       ELSE /\ hPc' = [hPc EXCEPT ![h] = "finally"]
            /\ UNCHANGED users
    /\ UNCHANGED <<hPhone, hSession, hExpiresAt, now, sessions, slotVars, flowVars, calendarVars, turnVars>>

\* await this.database.createSession(sessionId, user.id, phoneNumber, expiresAt)
CreateSession(h) ==
    /\ hPc[h] = "createSession"
    /\ sessions' = sessions \cup
          {SessionRow(Cardinality(sessions) + 1, hPhone[h], hExpiresAt[h], now)}
    /\ hPc' = [hPc EXCEPT ![h] = "refetch"]
    /\ UNCHANGED <<hPhone, hSession, hExpiresAt, now, users, slotVars, flowVars, calendarVars, turnVars>>

\* session = await this.database.getActiveSession(phoneNumber); null when the
\* row just written is not found.
RefetchSession(h) ==
    /\ hPc[h] = "refetch"
    /\ LET found == getActiveSession(hPhone[h], now)
       IN  \/ /\ found = {}
              /\ hPc' = [hPc EXCEPT ![h] = "finally"]
              /\ UNCHANGED hSession
           \/ \E r \in found :
                 /\ hSession' = [hSession EXCEPT ![h] = r.id]
                 /\ hPc' = [hPc EXCEPT ![h] = "touch"]
    /\ UNCHANGED <<hPhone, hExpiresAt, dbVars, slotVars, flowVars, calendarVars, turnVars>>

\* await this.database.updateSessionActivity(session.id)
TouchSession(h) ==
    /\ hPc[h] = "touch"
    /\ sessions' = updateSessionActivity(sessions, hSession[h], now)
    /\ hPc' = [hPc EXCEPT ![h] = "finally"]
    /\ UNCHANGED <<hPhone, hSession, hExpiresAt, now, users, slotVars, flowVars, calendarVars, turnVars>>

\* The rest of the message (command, welcome, natural language) and the
\* finally block that logs it: no effect on users' sessions.
FinishMessage(h) ==
    /\ hPc[h] = "finally"
    /\ hPc' = [hPc EXCEPT ![h] = "idle"]
    /\ hSession' = [hSession EXCEPT ![h] = NoSession]
    /\ hExpiresAt' = [hExpiresAt EXCEPT ![h] = 0]
    /\ UNCHANGED <<hPhone, dbVars, slotVars, flowVars, calendarVars, turnVars>>

\* Time passes.
Tick ==
    /\ now < MaxTime
    /\ now' = now + 1
    /\ UNCHANGED <<users, sessions, handlerVars, slotVars, flowVars, calendarVars, turnVars>>

SessionInit == SlotsIdle /\ DbInit /\ HandlersIdle /\ CalendarInit /\ TurnIdle /\ FlowIdle

SessionNext ==
    \/ \E h \in Handlers, phone \in Phones : Receive(h, phone)
    \/ \E h \in Handlers : LookupSession(h)
    \/ \E h \in Handlers : GetUser(h)
    \/ \E h \in Handlers : CreateUser(h)
    \/ \E h \in Handlers : CreateSession(h)
    \/ \E h \in Handlers : RefetchSession(h)
    \/ \E h \in Handlers : TouchSession(h)
    \/ \E h \in Handlers : FinishMessage(h)
    \/ Tick

SpecSession == SessionInit /\ [][SessionNext]_vars

-----------------------------------------------------------------------------
(* Session properties *)

\* The rows of an identity that pass the active-session filter now.
ActiveRows(phone) == {r \in sessions : MatchesActive(r, phone, now)}

\* C2: whatever the interleaving of two handlers of the same identity, that
\* identity never has more than one active session row.
C2_AtMostOneSessionRow ==
    \A p \in Phones : Cardinality(ActiveRows(p)) <= 1

\* No other row of the same identity is newer.
IsNewest(r) ==
    \A q \in sessions :
        q.phone_number = r.phone_number => ~TextGreater(q.created_at, r.created_at)

\* C10: a session whose expiresAt is T + 24h is returned by the active-session
\* lookup at every time before T + 24h and at no time after T + 24h.
C10_ActiveExactly24h ==
    \A r \in sessions :
        /\ (IsNewest(r) /\ now < ParseISO(r.expires_at))
              => r \in getActiveSession(r.phone_number, now)
        /\ now > ParseISO(r.expires_at)
              => r \notin getActiveSession(r.phone_number, now)

\* C10, first part: before T + 24h the session is returned.
C10_ActiveBefore24h ==
    \A r \in sessions :
        (IsNewest(r) /\ now < ParseISO(r.expires_at))
            => r \in getActiveSession(r.phone_number, now)

\* C10, last part: no step changes the expires_at of a session row, and
\* updateSessionActivity changes last_activity alone.
C10_ExpiryNeverMoves ==
    [][\A r \in sessions : \E q \in sessions' :
          /\ q.id = r.id
          /\ q.expires_at = r.expires_at
          /\ q.created_at = r.created_at]_vars

-----------------------------------------------------------------------------
(* Bounds of the turn *)

\* Most function calls in one response of the reasoning service.
MaxBatch == 2

\* Most event ids the provider issues in one behaviour.
MaxEvents == 2

\* Ticks an access token stays valid after it is issued.
TokenLifetime == 1

\* Last tick of the clock while turns are followed.
TurnMaxTime == 2

-----------------------------------------------------------------------------
(* Titles and text matching *)

\* Event titles and search texts, as character sequences.
Titles == {<<"A">>, <<"a", "b">>}

SearchTexts == {<<"a">>, <<"B">>, <<"c">>}

LowerChar(c) == IF c = "A" THEN "a" ELSE IF c = "B" THEN "b" ELSE c

toLowerCase(str) == [i \in 1..Len(str) |-> LowerChar(str[i])]

\* String.prototype.includes
includes(str, sub) ==
    \E i \in 0..(Len(str) - Len(sub)) : SubSeq(str, i + 1, i + Len(sub)) = sub

-----------------------------------------------------------------------------
(* Users and credentials *)

TurnPhone == "p1"

\* The users row of the identity whose turn is modelled.
TheUser == CHOOSE u \in users : u.phone_number = TurnPhone

\* An UPDATE that sets the status and leaves the stored tokens as they are.
updateUserAuthStatusOnly(rows, phone, status, tokens) ==
    {IF u.phone_number = phone THEN [u EXCEPT !.auth_status = status] ELSE u : u \in rows}

\* updateUserAuthStatus: UPDATE users SET auth_status = ?, google_tokens = ?
updateUserAuthStatus(rows, phone, status, tokens) ==
    {IF u.phone_number = phone
        THEN [u EXCEPT !.auth_status = status, !.google_tokens = tokens]
        ELSE u : u \in rows}

\* An identity provider whose answer carries no credentials.
IssuedNothing(t) == NoTokens

\* A credential bundle issued at t.
IssuedTokens(t) == <<[expiry_date |-> t + TokenLifetime]>>

\* getAuthenticatedClient up to its first await: "none" when it throws 'User
\* not authenticated', "expired" when the token must be refreshed first.
Credential(user, t) ==
    IF user.google_tokens = NoTokens THEN "none"
    ELSE IF t >= user.google_tokens[1].expiry_date THEN "expired"
    ELSE "valid"

\* MessageHandler.requiresAuth
AuthRequiredFunctions ==
    {"create_calendar_event", "get_calendar_events", "update_calendar_event",
     "delete_calendar_event", "search_calendar_events", "get_time_suggestions"}

requiresAuth(functionName) == functionName \in AuthRequiredFunctions

-----------------------------------------------------------------------------
(* Function calls and their validation *)

Call(name, title, start, end, eventId, searchTitle, timeRange) ==
    [name |-> name, title |-> title, startDateTime |-> start, endDateTime |-> end,
     eventId |-> eventId, searchTitle |-> searchTitle, timeRange |-> timeRange,
     location |-> NoLocation]

\* Times a call may carry for startDateTime / endDateTime.
ArgTimes == 1..(TurnMaxTime + 1)

EventIds == 1..MaxEvents

\* The function calls the reasoning service may return.
Calls ==
    {Call("create_calendar_event", t, s, e, NoId, <<>>, "absent") :
        t \in Titles \cup {<<>>}, s \in ArgTimes, e \in ArgTimes}
    \cup {Call("get_calendar_events", <<>>, 0, TurnMaxTime, NoId, <<>>, "absent")}
    \cup {Call("update_calendar_event", t, se[1], se[2], id, <<>>, "absent") :
            t \in {<<>>, <<"A">>},
            se \in {<<NoTime, NoTime>>, <<2, 1>>, <<2, NoTime>>},
            id \in EventIds}
    \cup {Call("delete_calendar_event", <<>>, NoTime, NoTime, id, <<>>, "absent") :
            id \in EventIds \cup {NoId}}
    \cup {Call("delete_calendar_event", <<>>, NoTime, NoTime, NoId, q, "absent") :
            q \in SearchTexts}
    \cup {Call("search_calendar_events", <<>>, NoTime, NoTime, NoId, <<"a">>, r) :
            r \in {"absent", "today", "tomorrow", "all"}}
    \cup {Call("get_time_suggestions", <<>>, 1, NoTime, NoId, <<>>, "absent")}
    \cup {Call("send_email", <<>>, NoTime, NoTime, NoId, <<>>, "absent")}

\* The calls that responses with several function calls are made of: one
\* that validation rejects, one of no known name, a read, a creation and a
\* deletion.
BatchCalls ==
    {Call("create_calendar_event", <<>>, 1, 2, NoId, <<>>, "absent"),
     Call("send_email", <<>>, NoTime, NoTime, NoId, <<>>, "absent"),
     Call("get_calendar_events", <<>>, 0, TurnMaxTime, NoId, <<>>, "absent"),
     Call("create_calendar_event", <<"A">>, 1, 2, NoId, <<>>, "absent"),
     Call("delete_calendar_event", <<>>, NoTime, NoTime, 1, <<>>, "absent")}

\* The responses of the reasoning service that carry function calls.
Batches ==
    {<<call>> : call \in Calls}
    \cup UNION {[1..n -> BatchCalls] : n \in 2..MaxBatch}

\* The events a batch may create.
Creations(batch) ==
    Cardinality({i \in DOMAIN batch : batch[i].name = "create_calendar_event"})

\* The loop takes the first call of the batch, from the last.
NextCallFromLast(batch, todo) == batch[todo]

\* for (const functionCall of geminiResponse.functionCalls): the call the
\* loop takes when `todo` calls are left.
NextCall(batch, todo) == batch[Len(batch) - todo + 1]

\* GeminiService.validateFunctionCall: "ok", "unknown" (no schema for the
\* name) or "invalid" (schema.parse throws).
validateFunctionCall(call) ==
    CASE call.name = "create_calendar_event" ->
            IF call.title # <<>> /\ call.startDateTime # NoTime /\ call.endDateTime # NoTime
            THEN "ok" ELSE "invalid"
      [] call.name = "get_calendar_events" ->
            IF call.startDateTime # NoTime /\ call.endDateTime # NoTime
            THEN "ok" ELSE "invalid"
      [] call.name = "update_calendar_event" ->
            IF call.eventId # NoId THEN "ok" ELSE "invalid"
      [] call.name = "delete_calendar_event" ->
            IF call.eventId # NoId \/ call.searchTitle # <<>> THEN "ok" ELSE "invalid"
      [] call.name = "search_calendar_events" ->
            IF call.searchTitle # <<>> THEN "ok" ELSE "invalid"
      [] OTHER -> "unknown"

\* Date checks that let an event of no length through.
CreateDateErrorStrictOrder(startTime, endTime, t) ==
    IF startTime > endTime THEN "StartAfterEnd"
    ELSE IF startTime < t THEN "PastDate"
    ELSE "none"

\* createCalendarEvent's date checks, in the order of the code: "none" when
\* the event may be created.
CreateDateError(startTime, endTime, t) ==
    IF startTime >= endTime THEN "StartAfterEnd"
    ELSE IF startTime < t THEN "PastDate"
    ELSE "none"

\* updateCalendarEvent: updates.startTime && updates.endTime &&
\* updates.startTime >= updates.endTime
UpdateDateError(call) ==
    /\ call.startDateTime # NoTime
    /\ call.endDateTime # NoTime
    /\ call.startDateTime >= call.endDateTime

-----------------------------------------------------------------------------
(* CalendarService against the provider *)

\* calendar.events.list: maxResults
MaxResults == 50

DayStart(t) == (t \div TicksPerDay) * TicksPerDay

\* The default range of getEvents: today, 00:00:00.000 to 23:59:59.999.
TodayRange(t) == [start |-> DayStart(t), end |-> DayStart(t) + TicksPerDay]

\* FunctionExecutor.parseTimeRange: null for 'all' and anything unlisted.
NoRange == [start |-> -1, end |-> -1]

parseTimeRange(timeRange, t) ==
    CASE timeRange = "today" -> TodayRange(t)
      [] timeRange = "tomorrow" -> TodayRange(t + TicksPerDay)
      [] OTHER -> NoRange

\* getEvents: the provider returns the events that end after timeMin and
\* start before timeMax, the first maxResults of them by start time; each is
\* mapped to {id, title, start_time, end_time}.
getEvents(events, timeRange, t) ==
    LET range == IF timeRange = NoRange THEN TodayRange(t) ELSE timeRange
        hits == {e \in events : e.end > range.start /\ e.start < range.end}
        first == {e \in hits :
                    Cardinality({q \in hits : q.start < e.start}) < MaxResults}
    IN  {[id |-> e.id, title |-> e.title, start_time |-> e.start, end_time |-> e.end] :
            e \in first}

\* findEventsByTitle: the events whose lower-cased title includes the
\* lower-cased search text.
findEventsByTitle(listed, title) ==
    {e \in listed : includes(toLowerCase(e.title), toLowerCase(title))}

\* NLPProcessor.parseTimeQuery: the first of 'today', 'tomorrow', 'this week'
\* the text includes, null otherwise. The week runs from Sunday to Saturday,
\* both at the current time of day; day 0 of the clock is a Sunday.
parseTimeQuery(query, t) ==
    LET sunday == t - ((t \div TicksPerDay) % 7) * TicksPerDay
    IN  CASE query = "today" -> TodayRange(t)
          [] query = "tomorrow" -> TodayRange(t + TicksPerDay)
          [] query = "this week" -> [start |-> sunday, end |-> sunday + 6 * TicksPerDay]
          [] OTHER -> NoRange

\* The range a list request of the current call asks for.
ListRange(call, t) ==
    CASE call.name = "none" -> [start |-> t, end |-> t + 2 * TicksPerDay]
      [] call.name = "view" -> parseTimeQuery(call.timeRange, t)
      [] call.name = "get_time_suggestions" -> TodayRange(call.startDateTime)
      [] call.name = "get_calendar_events" ->
            [start |-> call.startDateTime, end |-> call.endDateTime]
      [] call.name = "search_calendar_events" -> parseTimeRange(call.timeRange, t)
      [] OTHER -> NoRange

\* updateEvent: the resource sent to calendar.events.update, the existing
\* event with the supplied fields replaced.
MergedEvent(existing, call) ==
    [existing EXCEPT
        !.title = IF call.title # <<>> THEN call.title ELSE @,
        !.start = IF call.startDateTime # NoTime THEN call.startDateTime ELSE @,
        !.end = IF call.endDateTime # NoTime THEN call.endDateTime ELSE @,
        !.location = IF call.location # NoLocation THEN call.location[1] ELSE @]

\* createEvent: `if (eventData.location)` and `eventData.location || null`:
\* the location of the new event and of its row, "" for none.
CreatedLocation(call) == IF call.location # NoLocation THEN call.location[1] ELSE ""

MirrorRow(id, call) ==
    [google_event_id |-> id, title |-> call.title,
     start_time |-> call.startDateTime, end_time |-> call.endDateTime,
     location |-> CreatedLocation(call)]

\* UPDATE calendar_events SET <supplied fields> WHERE google_event_id = ?
MirrorUpdated(rows, id, call) ==
    {IF r.google_event_id = id
        THEN [r EXCEPT
                !.title = IF call.title # <<>> THEN call.title ELSE @,
                !.start_time = IF call.startDateTime # NoTime THEN call.startDateTime ELSE @,
                !.end_time = IF call.endDateTime # NoTime THEN call.endDateTime ELSE @]
        ELSE r : r \in rows}

\* DELETE FROM calendar_events WHERE google_event_id = ?
MirrorDeleted(rows, id) == {r \in rows : r.google_event_id # id}

-----------------------------------------------------------------------------
(* One turn of handleNaturalLanguageMessage, one action per await           *)

\* A function result. Failures carry the error and the function name; the
\* name is kept on successes too, to tell the results of a batch apart.
Result(call, success, error, events, eventId) ==
    [function |-> call.name, success |-> success, error |-> error,
     events |-> events, eventId |-> eventId]

\* A failure result that does not say which function failed.
FailureUnnamed(call, error) == Result(NoCall, FALSE, error, {}, NoId)

Failure(call, error) == Result(call, FALSE, error, {}, NoId)

\* A view handler that words its reply with the error it caught.
ViewFailureReplyRaw(error) == error

\* handleViewEvents' catch block: a fixed text, whatever the error.
ViewFailureReply(error) == "ErrorRetrieving"

\* An error thrown while `call` runs. While the context is built it is caught
\* by buildUserContext, in the fallback's view by handleViewEvents; in the loop
\* it becomes the call's failure result.
Throw(call, error) ==
    /\ tLog' = <<>>
    /\ tOp' = NoOp
    /\ tEvents' = {}
    /\ CASE call.name = "none" ->
               tPc' = "resolve" /\ UNCHANGED <<tResults, tReply>>
         [] call.name = "view" ->
               tPc' = "reply" /\ tReply' = ViewFailureReply(error) /\ UNCHANGED tResults
         [] OTHER ->
               /\ tPc' = "loop"
               /\ tResults' = Append(tResults, Failure(call, error))
               /\ UNCHANGED tReply

\* The executor returns `result` for `call`.
Return(call, result) ==
    /\ tLog' = <<>>
    /\ tOp' = NoOp
    /\ tEvents' = {}
    /\ tPc' = "loop"
    /\ tResults' = Append(tResults, result)
    /\ UNCHANGED tReply

\* The request goes out to the provider; a list request without a range asks
\* for the day of the moment it is sent. tLog lists the requests made so far
\* by the step of the turn in progress, each with its outcome.
Send(op, id, range, log, events) ==
    /\ tPc' = "remote"
    /\ tOp' = [op |-> op, id |-> id,
               range |-> IF op = "list" /\ range = NoRange THEN TodayRange(now) ELSE range]
    /\ tLog' = Append(log, [op |-> op, id |-> id, outcome |-> "pending"])
    /\ tEvents' = events
    /\ UNCHANGED <<tResults, tReply>>

\* authService.getAuthenticatedClient(user), then the request.
Request(call, op, id, range, log) ==
    LET credential == Credential(tUser, now)
    IN  IF credential = "none" THEN Throw(call, "NotAuthenticated")
        ELSE IF credential = "expired"
        THEN /\ tPc' = "refresh"
             /\ tOp' = [op |-> op, id |-> id, range |-> range]
             /\ tLog' = log
             /\ tEvents' = {}
             /\ UNCHANGED <<tResults, tReply>>
        ELSE Send(op, id, range, log, {})

\* FunctionExecutor.executeFunctionCall up to the first await of the handler.
Execute(call) ==
    CASE call.name = "create_calendar_event" ->
            LET error == CreateDateError(call.startDateTime, call.endDateTime, now)
            IN  IF error # "none" THEN Throw(call, error)
                ELSE Request(call, "insert", NoId, NoRange, <<>>)
      [] call.name = "update_calendar_event" ->
            IF UpdateDateError(call) THEN Throw(call, "StartAfterEnd")
            ELSE Request(call, "get", call.eventId, NoRange, <<>>)
      [] call.name = "delete_calendar_event" ->
            IF call.eventId # NoId
            THEN Request(call, "delete", call.eventId, NoRange, <<>>)
            ELSE IF call.searchTitle # <<>>
            THEN Request(call, "list", NoId, NoRange, <<>>)
            ELSE Throw(call, "EventIdOrTitleRequired")
      [] call.name \in {"get_calendar_events", "search_calendar_events",
                        "get_time_suggestions"} ->
            Request(call, "list", NoId, ListRange(call, now), <<>>)
      [] OTHER -> Throw(call, "UnknownFunction")

\* A message arrives from a known user: handleMessage reads the users row.
StartTurn ==
    /\ tPc = "idle"
    /\ tUser' = TheUser
    /\ tPc' = "context"
    /\ UNCHANGED <<tBatch, tTodo, tCall, tOp, tEvents, tResults, tLog, tReply>>
    /\ UNCHANGED <<dbVars, handlerVars, slotVars, flowVars, calendarVars>>

\* buildUserContext: getUpcomingEvents(user, 48).
BuildContext ==
    /\ tPc = "context"
    /\ Request(NoCall, "list", NoId, ListRange(NoCall, now), <<>>)
    /\ UNCHANGED <<tUser, tBatch, tTodo, tCall>>
    /\ UNCHANGED <<dbVars, handlerVars, slotVars, flowVars, calendarVars>>

\* The reply is sent and the handler returns.
EndTurn ==
    /\ tPc' = "idle"
    /\ tUser' = NoUserRow
    /\ tBatch' = <<>>
    /\ tTodo' = 0
    /\ tCall' = NoCall
    /\ tOp' = NoOp
    /\ tEvents' = {}
    /\ tResults' = <<>>
    /\ tLog' = <<>>
    /\ tReply' = "none"

\* geminiService.processMessage answers with text, which is sent as the reply.
ResolveText ==
    /\ tPc = "resolve"
    /\ EndTurn
    /\ UNCHANGED <<dbVars, handlerVars, slotVars, flowVars, calendarVars>>

\* geminiService.processMessage answers with n function calls.
ResolveCalls ==
    /\ tPc = "resolve"
    /\ \E batch \in Batches :
          /\ issuedIds + Creations(batch) <= MaxEvents
          /\ tBatch' = batch
          /\ tTodo' = Len(batch)
    /\ tPc' = "loop"
    /\ UNCHANGED <<tUser, tCall, tOp, tEvents, tResults, tLog, tReply>>
    /\ UNCHANGED <<dbVars, handlerVars, slotVars, flowVars, calendarVars>>

\* geminiService.processMessage throws: the catch block of
\* handleNaturalLanguageMessage hands the message to handleFallbackNLP.
ResolveFails ==
    /\ tPc = "resolve"
    /\ tPc' = "fallback"
    /\ UNCHANGED <<tUser, tBatch, tTodo, tCall, tOp, tEvents, tResults, tLog, tReply>>
    /\ UNCHANGED <<dbVars, handlerVars, slotVars, flowVars, calendarVars>>

\* The next function call of the batch: the authorization gate, the parameter
\* validation, then the executor.
Dispatch ==
    /\ tPc = "loop"
    /\ tTodo > 0
    /\ LET call == NextCall(tBatch, tTodo)
       IN
          /\ tCall' = call
          /\ IF requiresAuth(call.name) /\ tUser.auth_status # "authenticated"
             THEN Return(call, Failure(call, "AuthRequired"))
             ELSE IF validateFunctionCall(call) = "unknown"
             THEN Throw(call, "UnknownFunction")
             ELSE IF validateFunctionCall(call) = "invalid"
             THEN Throw(call, "InvalidParameters")
             ELSE Execute(call)
    /\ tTodo' = tTodo - 1
    /\ UNCHANGED <<tUser, tBatch>>
    /\ UNCHANGED <<dbVars, handlerVars, slotVars, flowVars, calendarVars>>

\* oauth2Client.refreshAccessToken() returns: the new bundle is stored and the
\* request goes out, or the refresh fails.
RefreshReturns ==
    /\ tPc = "refresh"
    /\ \/ /\ users' = updateUserAuthStatus(users, TurnPhone, "authenticated",
                                           IssuedTokens(now))
          /\ Send(tOp.op, tOp.id, tOp.range, tLog, {})
       \/ /\ UNCHANGED users
          /\ Throw(tCall, "ReAuthRequired")
    /\ UNCHANGED <<tUser, tBatch, tTodo, tCall, now, sessions>>
    /\ UNCHANGED <<handlerVars, slotVars, flowVars, calendarVars>>

\* What follows the provider's answer to an insert, update or delete, were
\* the local write made whatever the answer.
AfterMutationAlwaysMirror(ok) == "mirror"

\* What follows the provider's answer to an insert, update or delete: the
\* local write when the call returned, the catch block when it threw.
AfterMutation(ok) == IF ok THEN "mirror" ELSE "throw"

\* A search that goes on to delete the event it found, as a delete by title does.
ListReturnedDeleting(log) ==
    LET listed == getEvents(remote, tOp.range, now)
        events == findEventsByTitle(listed, tCall.searchTitle)
    IN  CASE tCall.name = "none" ->
                /\ tPc' = "resolve"
                /\ tOp' = NoOp
                /\ tLog' = <<>>
                /\ UNCHANGED <<tResults, tEvents, tReply>>
          [] tCall.name = "view" ->
                /\ tPc' = "reply"
                /\ tReply' = IF listed = {} THEN "NoEvents" ELSE "Events"
                /\ tOp' = NoOp
                /\ tLog' = <<>>
                /\ UNCHANGED <<tResults, tEvents>>
          [] tCall.name \in {"delete_calendar_event", "search_calendar_events"} ->
                IF events = {} THEN Throw(tCall, "NotFound")
                ELSE IF Cardinality(events) > 1
                THEN Return(tCall,
                            Result(tCall, FALSE, "MultipleMatches",
                                   {[id |-> e.id, title |-> e.title, start |-> e.start_time] :
                                       e \in events}, NoId))
                ELSE Request(tCall, "delete", (CHOOSE e \in events : TRUE).id,
                             NoRange, log)
          [] OTHER ->
                Return(tCall, Result(tCall, TRUE, "none", listed, NoId))

\* calendar.events.list returned its items.
ListReturned(log) ==
    LET listed == getEvents(remote, tOp.range, now)
        events == findEventsByTitle(listed, tCall.searchTitle)
    IN  CASE tCall.name = "none" ->
                /\ tPc' = "resolve"
                /\ tOp' = NoOp
                /\ tLog' = <<>>
                /\ UNCHANGED <<tResults, tEvents, tReply>>
          [] tCall.name = "view" ->
                /\ tPc' = "reply"
                /\ tReply' = IF listed = {} THEN "NoEvents" ELSE "Events"
                /\ tOp' = NoOp
                /\ tLog' = <<>>
                /\ UNCHANGED <<tResults, tEvents>>
          [] tCall.name = "delete_calendar_event" ->
                IF events = {} THEN Throw(tCall, "NotFound")
                ELSE IF Cardinality(events) > 1
                THEN Return(tCall,
                            Result(tCall, FALSE, "MultipleMatches",
                                   {[id |-> e.id, title |-> e.title, start |-> e.start_time] :
                                       e \in events}, NoId))
                ELSE Request(tCall, "delete", (CHOOSE e \in events : TRUE).id,
                             NoRange, log)
          [] tCall.name = "search_calendar_events" ->
                Return(tCall, Result(tCall, TRUE, "none", events, NoId))
          [] OTHER ->
                Return(tCall, Result(tCall, TRUE, "none", listed, NoId))

\* The provider's state after a successful insert, update or delete.
Mutated(events, op, id, call, existing, newId) ==
    CASE op = "insert" ->
            events \cup {[id |-> newId, title |-> call.title,
                          start |-> call.startDateTime, end |-> call.endDateTime,
                          location |-> CreatedLocation(call)]}
      [] op = "update" ->
            {e \in events : e.id # id} \cup {MergedEvent(e, call) : e \in existing}
      [] OTHER -> {e \in events : e.id # id}

\* The provider answers the request in flight, with success or with an error
\* (always an error for an event id it does not hold).
RemoteReturns ==
    /\ tPc = "remote"
    /\ \E answer \in BOOLEAN :
          LET ok == answer /\ (tOp.op \in {"get", "update", "delete"}
                                  => \E e \in remote : e.id = tOp.id)
              log == [tLog EXCEPT ![Len(tLog)].outcome = IF ok THEN "ok" ELSE "error"]
          IN  CASE tOp.op = "list" ->
                      /\ IF ok THEN ListReturned(log) ELSE Throw(tCall, "RemoteError")
                      /\ UNCHANGED calendarVars
                [] tOp.op = "get" ->
                      /\ IF ok
                         THEN Send("update", tOp.id, NoRange, log,
                                   {e \in remote : e.id = tOp.id})
                         ELSE Throw(tCall, "RemoteError")
                      /\ UNCHANGED calendarVars
                [] OTHER ->
                      /\ IF AfterMutation(ok) = "mirror"
                         THEN /\ tPc' = "mirror"
                              /\ tLog' = log
                              /\ tOp' = [tOp EXCEPT !.id =
                                           IF tOp.op = "insert" /\ ok
                                           THEN issuedIds + 1 ELSE @]
                              /\ UNCHANGED <<tResults, tEvents, tReply>>
                         ELSE Throw(tCall, "RemoteError")
                      /\ remote' = IF ok
                                   THEN Mutated(remote, tOp.op, tOp.id, tCall, tEvents,
                                                issuedIds + 1)
                                   ELSE remote
                      /\ issuedIds' = IF ok /\ tOp.op = "insert"
                                      THEN issuedIds + 1 ELSE issuedIds
                      /\ UNCHANGED mirror
    /\ UNCHANGED <<tUser, tBatch, tTodo, tCall>>
    /\ UNCHANGED <<dbVars, handlerVars, slotVars, flowVars>>

\* The row the mirror holds for an event when every write of it was stored.
RowOf(e) ==
    [google_event_id |-> e.id, title |-> e.title,
     start_time |-> e.start, end_time |-> e.end, location |-> e.location]

\* The local database is written after the provider call, and the executor
\* returns its success result; when database.run rejects, the error leaves
\* the try block of the service and becomes the call's failure result.
\* outcomes holds the answers the database may give: TRUE for a write it
\* stores, FALSE for one it rejects.
MirrorWriteWith(outcomes) ==
    /\ tPc = "mirror"
    /\ \E stored \in outcomes :
          IF stored
          THEN /\ mirror' = CASE tOp.op = "insert" -> mirror \cup {MirrorRow(tOp.id, tCall)}
                              [] tOp.op = "update" -> MirrorUpdated(mirror, tOp.id, tCall)
                              [] OTHER -> MirrorDeleted(mirror, tOp.id)
               /\ Return(tCall, Result(tCall, TRUE, "none", {}, tOp.id))
          ELSE /\ mirror' = mirror
               /\ Throw(tCall, "DatabaseError")
    /\ UNCHANGED <<tUser, tBatch, tTodo, tCall, remote, issuedIds>>
    /\ UNCHANGED <<dbVars, handlerVars, slotVars, flowVars>>

\* The write over a database that stores every statement.
MirrorWrite == MirrorWriteWith({TRUE})

\* The write over a database that may reject a statement.
StoreWrite == MirrorWriteWith(BOOLEAN)

\* processWithFunctionResults words the results and the reply is sent.
Synthesize ==
    /\ tPc = "loop"
    /\ tTodo = 0
    /\ EndTurn
    /\ UNCHANGED <<dbVars, handlerVars, slotVars, flowVars, calendarVars>>

\* processWithFunctionResults throws: the same catch block hands the message
\* to handleFallbackNLP, after the batch has run. geminiResponse and
\* functionResults are locals of the try block and are lost to the catch.
SynthesizeFails ==
    /\ tPc = "loop"
    /\ tTodo = 0
    /\ tPc' = "fallback"
    /\ tBatch' = <<>>
    /\ tCall' = NoCall
    /\ tResults' = <<>>
    /\ UNCHANGED <<tUser, tTodo, tOp, tEvents, tLog, tReply>>
    /\ UNCHANGED <<dbVars, handlerVars, slotVars, flowVars, calendarVars>>

\* What the rule-based processor makes of a message.
FallbackIntents == {"invalid", "create", "view", "edit", "delete", "other"}

TimeQueries == {"today", "tomorrow", "this week", "absent"}

\* A fallback whose delete handler empties the mirror before it answers.
FallbackDeleting ==
    /\ tPc = "fallback"
    /\ tCall' = NoCall
    /\ tPc' = "reply"
    /\ tReply' = "DeleteNotice"
    /\ mirror' = {}
    /\ UNCHANGED <<remote, issuedIds, tOp, tEvents, tResults, tLog, tUser, tBatch, tTodo>>
    /\ UNCHANGED <<dbVars, handlerVars, slotVars, flowVars>>

\* handleFallbackNLP: only the view handler goes to the calendar.
Fallback ==
    /\ tPc = "fallback"
    /\ \E intent \in FallbackIntents :
          IF intent = "view"
          THEN \E query \in TimeQueries :
                  LET call == Call("view", <<>>, NoTime, NoTime, NoId, <<>>, query)
                  IN  /\ tCall' = call
                      /\ Request(call, "list", NoId, ListRange(call, now), <<>>)
          ELSE /\ tCall' = NoCall
               /\ tPc' = "reply"
               /\ tReply' = CASE intent = "invalid" -> "NotUnderstood"
                              [] intent = "create" -> "ConfirmPrompt"
                              [] intent = "edit" -> "EditNotice"
                              [] intent = "delete" -> "DeleteNotice"
                              [] OTHER -> "Unsure"
               /\ UNCHANGED <<tOp, tEvents, tResults, tLog>>
    /\ UNCHANGED <<tUser, tBatch, tTodo>>
    /\ UNCHANGED <<dbVars, handlerVars, slotVars, flowVars, calendarVars>>

\* The fallback's reply is sent.
Reply ==
    /\ tPc = "reply"
    /\ EndTurn
    /\ UNCHANGED <<dbVars, handlerVars, slotVars, flowVars, calendarVars>>

\* handleGoogleCallback stores a fresh bundle: the user is authenticated.
LoginCompletes ==
    /\ users' = updateUserAuthStatus(users, TurnPhone, "authenticated", IssuedTokens(now))
    /\ UNCHANGED <<now, sessions, handlerVars, slotVars, flowVars, calendarVars, turnVars>>

\* handleLogout: the /logout command of another message of the user.
Logout ==
    /\ users' = updateUserAuthStatus(users, TurnPhone, "logged_out", NoTokens)
    /\ UNCHANGED <<now, sessions, handlerVars, slotVars, flowVars, calendarVars, turnVars>>

\* AuthService.revokeAccess, when revokeCredentials succeeds (when it throws,
\* the row is left as it is). No handler of the repository calls it; it is
\* followed here as an operation open to callers.
Revoke ==
    /\ users' = updateUserAuthStatus(users, TurnPhone, "revoked", NoTokens)
    /\ UNCHANGED <<now, sessions, handlerVars, slotVars, flowVars, calendarVars, turnVars>>

\* The clock advances while turns are followed.
TurnTick ==
    /\ now < TurnMaxTime
    /\ now' = now + 1
    /\ UNCHANGED <<users, sessions, handlerVars, slotVars, flowVars, calendarVars, turnVars>>

TurnInit ==
    /\ SlotsIdle
    /\ now = 0
    /\ users = {NewUserRow(TurnPhone)}
    /\ sessions = {}
    /\ HandlersIdle
    /\ CalendarInit
    /\ TurnIdle
    /\ FlowIdle

Next ==
    \/ StartTurn
    \/ BuildContext
    \/ ResolveText
    \/ ResolveCalls
    \/ ResolveFails
    \/ Dispatch
    \/ RefreshReturns
    \/ RemoteReturns
    \/ MirrorWrite
    \/ Synthesize
    \/ SynthesizeFails
    \/ Fallback
    \/ Reply
    \/ LoginCompletes
    \/ Logout
    \/ Revoke
    \/ TurnTick

Spec == TurnInit /\ [][Next]_vars

-----------------------------------------------------------------------------
(* Claims on the turn *)

\* The turn in progress handles the message of a user whose auth_status was
\* not 'authenticated' when the users row was read.
UnauthenticatedTurn == tPc # "idle" /\ tUser.auth_status # "authenticated"

\* No request to the provider, and no token refresh, is made in such a turn.
C1_NoProviderCall ==
    UnauthenticatedTurn => tPc \notin {"refresh", "remote", "mirror"} /\ tLog = <<>>

\* Every function call of such a turn gets the AuthRequired failure.
C1_GateResult ==
    UnauthenticatedTurn =>
        \A i \in 1..Len(tResults) :
            tResults[i].function \in AuthRequiredFunctions =>
                ~tResults[i].success /\ tResults[i].error = "AuthRequired"

\* C1: for every action kind and every user who is not authenticated when the
\* message is handled, the action's result is the AuthRequired failure and no
\* call to the calendar provider is made at any point of the turn; the view
\* of the rule-based fallback is a ListEvents action of the turn.
C1_AuthRequiredAndNoCall ==
    /\ C1_NoProviderCall
    /\ C1_GateResult
    /\ (UnauthenticatedTurn /\ tPc = "reply" /\ tCall.name = "view")
          => tReply = "AuthRequired"

Mutations == {"insert", "update", "delete"}

MutationOf(name) ==
    CASE name = "create_calendar_event" -> "insert"
      [] name = "update_calendar_event" -> "update"
      [] name = "delete_calendar_event" -> "delete"
      [] OTHER -> "none"

\* C3: the mirror is written only by the step that follows a successful
\* insert, update or delete at the provider for the action in progress; while
\* the call is pending or after it failed the mirror is unchanged; and an
\* action sends at most one mutating request.
C3_MirrorOnlyAfterRemoteSuccess ==
    [][/\ mirror' # mirror => tPc = "mirror"
       /\ tPc' = "mirror" =>
             /\ tLog' # <<>>
             /\ tLog'[Len(tLog')].outcome = "ok"
             /\ tLog'[Len(tLog')].op = MutationOf(tCall'.name)
       /\ Cardinality({i \in DOMAIN tLog' : tLog'[i].op \in Mutations}) <= 1]_vars

\* The provider has applied an update that the mirror has yet to receive.
C3_Witness ==
    /\ tPc = "mirror"
    /\ tOp.op = "update"
    /\ \E e \in remote, r \in mirror :
          e.id = tOp.id /\ r.google_event_id = tOp.id /\ r.title # e.title

\* A delete by title waits for the provider's list of events.
DeleteByTitleListing ==
    tPc = "remote" /\ tOp.op = "list" /\ tCall.name = "delete_calendar_event"

\* The user's events whose title contains the search text, whatever the case.
AllMatches ==
    {e \in remote : includes(toLowerCase(e.title), toLowerCase(tCall.searchTitle))}

\* Those of them inside the range the list request asked for.
ListedMatches ==
    {e \in AllMatches : e.end > tOp.range.start /\ e.start < tOp.range.end}

\* The outcome of a delete by title when the list request is answered without
\* an error, for `matches` the matching events.
DeleteByTitleOutcome(matches) ==
    LET n == Cardinality(matches)
        answered == Len(tResults') = Len(tResults) + 1
        last == tResults'[Len(tResults')]
    IN  (/\ DeleteByTitleListing
         /\ tOp' # tOp
         /\ ~(answered /\ last.error = "RemoteError"))
        => /\ n = 0 => /\ answered /\ ~last.success /\ last.error = "NotFound"
                       /\ UNCHANGED <<remote, mirror>>
           /\ n > 1 => /\ answered /\ ~last.success
                       /\ last.events = {[id |-> e.id, title |-> e.title, start |-> e.start] :
                                            e \in matches}
                       /\ Cardinality(last.events) = n
                       /\ UNCHANGED <<remote, mirror>>
           /\ n = 1 => /\ tPc' \in {"remote", "refresh"}
                       /\ tOp'.op = "delete"
                       /\ \A e \in matches : tOp'.id = e.id

\* A delete the provider has confirmed and the database has taken removes the
\* mirror row and succeeds.
DeleteCompletes ==
    (tPc = "mirror" /\ tOp.op = "delete" /\ tPc' = "loop"
        /\ tResults'[Len(tResults')].error # "DatabaseError")
    => /\ \A e \in remote' : e.id # tOp.id
       /\ \A r \in mirror' : r.google_event_id # tOp.id
       /\ tResults'[Len(tResults')].success
       /\ tResults'[Len(tResults')].eventId = tOp.id

\* C4: delete by title with N matching events of the user: N = 0 gives the
\* NotFound failure and deletes nothing, N = 1 deletes the event at the
\* provider and its mirror row, N > 1 deletes nothing and returns exactly the
\* N candidates (id, title, start).
C4_DeleteByTitle == [][DeleteByTitleOutcome(AllMatches) /\ DeleteCompletes]_vars

\* The same with N counted among the events of the listed day only.
C4_DeleteByTitleAmongListed == [][DeleteByTitleOutcome(ListedMatches) /\ DeleteCompletes]_vars

\* C5: a validated create of an authenticated user with start = end, start >
\* end or start < now gets a failure result in the dispatching step itself,
\* with no request sent and no mirror write; with start < end and start >= now
\* it goes on to the insert request (through a token refresh when due).
C5_CreateDateChecks ==
    [][(/\ tPc = "loop"
        /\ tTodo' = tTodo - 1
        /\ tCall'.name = "create_calendar_event"
        /\ tCall'.title # <<>>
        /\ tUser.auth_status = "authenticated")
       => LET start == tCall'.startDateTime
              end == tCall'.endDateTime
          IN  IF start = end \/ start > end \/ start < now
              THEN /\ tPc' = "loop"
                   /\ Len(tResults') = Len(tResults) + 1
                   /\ ~tResults'[Len(tResults')].success
                   /\ tResults'[Len(tResults')].function = "create_calendar_event"
                   /\ tLog' = <<>>
                   /\ UNCHANGED <<remote, mirror, issuedIds>>
              ELSE /\ tPc' \in {"remote", "refresh"}
                   /\ tOp'.op = "insert"
                   /\ tResults' = tResults]_vars

\* A create with start = end has been rejected.
C5_Witness ==
    /\ tPc = "loop"
    /\ tCall.name = "create_calendar_event"
    /\ tCall.startDateTime = tCall.endDateTime
    /\ tCall.startDateTime >= now
    /\ tResults # <<>>
    /\ tResults[Len(tResults)].error = "StartAfterEnd"
    /\ tUser.auth_status = "authenticated"

\* The calls of the batch the loop has taken so far.
Taken == Len(tBatch) - tTodo

\* C11: a response of n function calls gives exactly n results, the i-th
\* result being that of the i-th call, and the loop goes on to the next call
\* whatever the outcome of the earlier ones: while a batch runs there is one
\* result per call taken (the call in progress excepted), and the loop is left
\* for the synthesis only with n results.
C11_OneResultPerAction ==
    [][/\ tBatch' # <<>> =>
            /\ Len(tResults') = Taken' - (IF tPc' = "loop" THEN 0 ELSE 1)
            /\ \A i \in 1..Len(tResults') : tResults'[i].function = tBatch'[i].name
            /\ tPc' # "loop" => tCall' = tBatch'[Taken']
       /\ (tPc = "loop" /\ tBatch # <<>> /\ tPc' \in {"idle", "fallback"})
             => Len(tResults) = Len(tBatch)]_vars

\* Two calls have their results although the provider failed the first.
C11_Witness ==
    /\ tPc = "loop"
    /\ tTodo = 0
    /\ Len(tResults) = 2
    /\ tResults[1].error = "RemoteError"
    /\ tResults[2].success
    /\ tResults[2].function = "create_calendar_event"

\* C12: for each action the parameters are validated before the authorization
\* is checked, so a call whose parameters are rejected gets the validation
\* failure whoever the user is.
C12_ValidationBeforeAuthorization ==
    \A i \in 1..Len(tResults) :
        (tBatch # <<>> /\ validateFunctionCall(tBatch[i]) # "ok")
            => tResults[i].error \in {"InvalidParameters", "UnknownFunction"}

\* The order of the code: a gated call of an unauthenticated user gets the
\* AuthRequired failure whether or not its parameters are valid, and every
\* other call whose parameters are rejected gets the validation failure.
C12_AuthorizationBeforeValidation ==
    \A i \in 1..Len(tResults) :
        tBatch # <<>> =>
            IF requiresAuth(tBatch[i].name) /\ tUser.auth_status # "authenticated"
            THEN tResults[i].error = "AuthRequired"
            ELSE validateFunctionCall(tBatch[i]) # "ok"
                    => tResults[i].error \in {"InvalidParameters", "UnknownFunction"}

\* C13: when the synthesis fails after the batch has run, the next thing the
\* turn does is to reply with a templated message of the results: nothing is
\* resolved or executed again.
C13_SynthesisFailureRepliesResults ==
    [][(tPc = "loop" /\ tTodo = 0 /\ tPc' \notin {"loop", "idle"})
          => (tPc' = "reply" /\ tReply' = "Results")]_vars

\* The rule-based path changes neither the provider's events nor the mirror.
C13_FallbackNeverMutates ==
    [][(tPc \in {"fallback", "reply"} \/ tCall.name = "view")
          => UNCHANGED <<remote, issuedIds, mirror>>]_vars

\* The replies of the rule-based path.
FallbackReplies ==
    {"NotUnderstood", "ConfirmPrompt", "EditNotice", "DeleteNotice", "Unsure",
     "Events", "NoEvents", "ErrorRetrieving"}

\* The rule-based path of a turn is running.
InFallback == tPc \in {"fallback", "reply"} \/ tCall.name = "view"

\* C14: a turn whose resolution failed is handled by the rule-based path for
\* the whole message (no function call of the reasoning service is run), it
\* ends only by sending one of the fixed replies of that path, never the text
\* of an error, and it can always take its next step.
C14_FallbackEndsWithReply ==
    [][/\ (tPc = "resolve" /\ tPc' \notin {"resolve", "idle", "loop"})
             => tPc' = "fallback"
       /\ InFallback =>
             /\ tBatch = <<>> /\ tResults = <<>>
             /\ tPc \in {"fallback", "refresh", "remote", "reply"}
             /\ tPc' \in {"fallback", "refresh", "remote", "reply", "idle"}
             /\ tPc' = "idle" => tPc = "reply" /\ tReply \in FallbackReplies
             /\ ENABLED (Fallback \/ RefreshReturns \/ RemoteReturns \/ Reply)]_vars

\* The view of the rule-based path failed at the provider and the turn is
\* about to reply.
C14_Witness ==
    /\ tPc = "reply"
    /\ tCall.name = "view"
    /\ tReply = "ErrorRetrieving"
    /\ tUser.auth_status = "authenticated"

-----------------------------------------------------------------------------
(* Expired credentials *)

\* The step sends a request on a client it has just obtained (the update of
\* updateEvent goes out on the client obtained for its get).
SendsOnNewClient == tPc' = "remote" /\ Len(tLog') = Len(tLog) + 1 /\ tOp'.op # "update"

\* The refresh has failed.
RefreshFailed == tPc = "refresh" /\ tPc' \notin {"refresh", "remote"}

\* A request goes out with a bundle that is not expired: the stored one, or
\* the one a completed refresh has just stored.
C17_RefreshPrecedesRequest ==
    [][SendsOnNewClient =>
          IF tPc = "refresh"
          THEN Credential(TheUser, now)' = "valid"
          ELSE Credential(tUser, now) = "valid"]_vars

\* A failed refresh inside a function call sends nothing and gives the call
\* the re-authentication failure.
C17_ExecutorReAuth ==
    [][(RefreshFailed /\ tCall.name \notin {"none", "view"})
          => /\ tPc' = "loop"
             /\ tResults' = Append(tResults, Failure(tCall, "ReAuthRequired"))
             /\ UNCHANGED <<remote, mirror>>]_vars

\* C17: with an expired credential every request to the provider follows a
\* completed refresh, and when the refresh fails nothing is sent and the
\* action fails with the re-authentication error, not a generic one.
C17_ExpiredCredentialRefreshedFirst ==
    [][/\ SendsOnNewClient =>
             IF tPc = "refresh"
             THEN Credential(TheUser, now)' = "valid"
             ELSE Credential(tUser, now) = "valid"
       /\ (RefreshFailed /\ tCall.name # "none")
             => \/ /\ tPc' = "loop"
                   /\ tResults' = Append(tResults, Failure(tCall, "ReAuthRequired"))
                \/ /\ tPc' = "reply"
                   /\ tReply' = "ReAuthRequired"]_vars

-----------------------------------------------------------------------------
(* The authorization flow: /auth sends a link, Google redirects the browser *)
(* to /auth/google/callback, a sweep drops expired requests                 *)

\* Last tick of the clock of the authorization flow.
AuthMaxTime == 3

\* Most links sent in one behaviour.
MaxLinks == 2

\* 10 * 60 * 1000 ms, and expiresIn: '10m', in ticks.
AuthTtl == 2

\* jwt.sign({ phoneNumber, timestamp }, secret, { expiresIn: '10m' })
SignedState(phone, t) == [phoneNumber |-> phone, timestamp |-> t]

\* jwt.verify(state, secret) does not throw: the token is not yet expired.
JwtValid(state, t) == t < state.timestamp + AuthTtl

\* A generateAuthUrl that keeps the request already stored for the identity
\* (INSERT OR IGNORE, and no map.set over an entry).
generateAuthUrlKeepingFirst(phone) ==
    LET state == SignedState(phone, now)
        first == pendingRows[phone] = NoPendingRow
    IN  /\ state \notin authStates
        /\ Cardinality(authStates) < MaxLinks
        /\ pendingAuth' = IF pendingAuth[phone] = NoPending
                          THEN [pendingAuth EXCEPT
                                   ![phone] = [state |-> state, expires |-> now + AuthTtl]]
                          ELSE pendingAuth
        /\ pendingRows' = IF pendingTable /\ first
                          THEN [pendingRows EXCEPT
                                   ![phone] = [state |-> state,
                                               expires_at |-> toISOString(now + AuthTtl)]]
                          ELSE pendingRows
        /\ authStates' = authStates \cup {state}
        /\ UNCHANGED <<pendingTable, consumed, cbPc, cbState, cbPending>>
        /\ UNCHANGED <<dbVars, handlerVars, slotVars, calendarVars, turnVars,
                       clientVars, updateVars, nlpVars, edgeVars>>

\* handleAuth -> generateAuthUrl: the request is stored in the handler's map
\* and, when the statement succeeds, in pending_auth (INSERT OR REPLACE; a
\* failure is logged and ignored), and the link is sent.
generateAuthUrl(phone) ==
    LET state == SignedState(phone, now)
    IN  /\ state \notin authStates
        /\ Cardinality(authStates) < MaxLinks
        /\ pendingAuth' = [pendingAuth EXCEPT
                              ![phone] = [state |-> state, expires |-> now + AuthTtl]]
        /\ pendingRows' = IF pendingTable
                          THEN [pendingRows EXCEPT
                                   ![phone] = [state |-> state,
                                               expires_at |-> toISOString(now + AuthTtl)]]
                          ELSE pendingRows
        /\ authStates' = authStates \cup {state}
        /\ UNCHANGED <<pendingTable, consumed, cbPc, cbState, cbPending>>
        /\ UNCHANGED <<dbVars, handlerVars, slotVars, calendarVars, turnVars,
                       clientVars, updateVars, nlpVars, edgeVars>>

\* The pendingAuth map of the AuthService that serves a callback: the route
\* constructs a new AuthService for every request.
CallbackInstanceMap == [p \in Phones |-> NoPending]

\* SELECT * FROM pending_auth WHERE phone_number = ? AND expires_at >
\* datetime("now"): the state of the row, NoState when the statement fails or
\* finds nothing.
PendingRowState(phone, t) ==
    LET row == pendingRows[phone]
    IN  IF /\ pendingTable
           /\ row # NoPendingRow
           /\ TextGreater(row.expires_at, DatetimeNow(t))
        THEN row.state
        ELSE NoState

\* handleGoogleCallback up to the token exchange: the state token is
\* verified and the pending request looked up, in memory first, then in the
\* database.
CallbackReceived(state) ==
    /\ cbPc = "idle"
    /\ state \in authStates
    /\ cbState' = state
    /\ IF ~JwtValid(state, now)
       THEN cbPc' = "rejected" /\ cbPending' = NoState
       ELSE LET inMemory == CallbackInstanceMap[state.phoneNumber]
                found == IF inMemory # NoPending THEN inMemory.state
                         ELSE PendingRowState(state.phoneNumber, now)
            IN  /\ cbPending' = found
                /\ cbPc' = IF found = NoState \/ found # state
                           THEN "rejected" ELSE "exchange"
    /\ UNCHANGED <<pendingAuth, pendingTable, pendingRows, authStates, consumed>>
    /\ UNCHANGED <<dbVars, handlerVars, slotVars, calendarVars, turnVars,
                   clientVars, updateVars, nlpVars, edgeVars>>

\* oauth2Client.getToken(code) and userinfo.get(): Google accepts the code or
\* refuses it.
CallbackExchange ==
    /\ cbPc = "exchange"
    /\ \E accepted \in BOOLEAN : cbPc' = IF accepted THEN "store" ELSE "rejected"
    /\ UNCHANGED <<pendingAuth, pendingTable, pendingRows, authStates, consumed,
                   cbState, cbPending>>
    /\ UNCHANGED <<dbVars, handlerVars, slotVars, calendarVars, turnVars,
                   clientVars, updateVars, nlpVars, edgeVars>>

\* The users row gets the bundle; this.pendingAuth.delete(phoneNumber) then
\* acts on the map of the callback's own AuthService, and no statement
\* deletes from pending_auth.
CallbackStore ==
    /\ cbPc = "store"
    /\ LET phone == cbState.phoneNumber
           rows == IF \E u \in users : u.phone_number = phone
                   THEN users ELSE users \cup {NewUserRow(phone)}
       IN  users' = updateUserAuthStatus(rows, phone, "authenticated", IssuedTokens(now))
    /\ consumed' = consumed \cup {cbState}
    /\ cbPc' = "done"
    /\ UNCHANGED <<pendingAuth, pendingTable, pendingRows, authStates, cbState,
                   cbPending, now, sessions>>
    /\ UNCHANGED <<handlerVars, slotVars, calendarVars, turnVars, clientVars,
        updateVars, nlpVars, edgeVars>>

\* The route answers: 'Authorization successful' or the 500 page.
CallbackEnds ==
    /\ cbPc \in {"done", "rejected"}
    /\ cbPc' = "idle"
    /\ cbState' = NoState
    /\ cbPending' = NoState
    /\ UNCHANGED <<pendingAuth, pendingTable, pendingRows, authStates, consumed>>
    /\ UNCHANGED <<dbVars, handlerVars, slotVars, calendarVars, turnVars,
                   clientVars, updateVars, nlpVars, edgeVars>>

\* The periodic sweep of the handler's map.
cleanupExpiredAuth ==
    /\ pendingAuth' = [p \in Phones |->
                          IF pendingAuth[p] # NoPending /\ now > pendingAuth[p].expires
                          THEN NoPending ELSE pendingAuth[p]]
    /\ UNCHANGED <<pendingTable, pendingRows, authStates, consumed, cbPc, cbState,
                   cbPending>>
    /\ UNCHANGED <<dbVars, handlerVars, slotVars, calendarVars, turnVars,
                   clientVars, updateVars, nlpVars, edgeVars>>

AuthTick ==
    /\ now < AuthMaxTime
    /\ now' = now + 1
    /\ UNCHANGED <<users, sessions, handlerVars, slotVars, calendarVars, turnVars, flowVars>>

\* createTables does not create pending_auth: the database file has the
\* table or every statement on it fails.
AuthInit ==
    /\ SlotsIdle
    /\ DbInit
    /\ HandlersIdle
    /\ CalendarInit
    /\ TurnIdle
    /\ ClientIdle
    /\ UpdateIdle
    /\ NlpIdle
    /\ EdgeIdle
    /\ pendingAuth = [p \in Phones |-> NoPending]
    /\ pendingTable \in BOOLEAN
    /\ pendingRows = [p \in Phones |-> NoPendingRow]
    /\ authStates = {}
    /\ consumed = {}
    /\ cbPc = "idle"
    /\ cbState = NoState
    /\ cbPending = NoState

AuthNext ==
    \/ \E phone \in Phones : generateAuthUrl(phone)
    \/ \E state \in authStates : CallbackReceived(state)
    \/ CallbackExchange
    \/ CallbackStore
    \/ CallbackEnds
    \/ cleanupExpiredAuth
    \/ AuthTick

SpecAuth == AuthInit /\ [][AuthNext]_vars

-----------------------------------------------------------------------------
(* Properties of the authorization flow *)

C15_NoTableNoLogin == ~pendingTable => (consumed = {} /\ cbPc \in {"idle", "rejected"})

\* The sweep removes only entries whose ten minutes are over.
C16_SweepRemovesOnlyExpired ==
    [][\A p \in Phones :
          (pendingAuth[p] # NoPending /\ pendingAuth'[p] = NoPending)
             => now > pendingAuth[p].expires]_vars

-----------------------------------------------------------------------------
(* The OAuth2 client of one AuthService, used by the calendar calls of      *)
(* messages from two identities that are handled at the same time           *)

\* Last tick of the clock of the shared client.
ClientMaxTime == 1

\* The credential bundle of `phone`'s Google account, issued at t.
BundleOf(phone, t) == <<[account |-> phone, expiry_date |-> t + TokenLifetime]>>

\* The users row of `phone`.
UserOf(phone) == CHOOSE u \in users : u.phone_number = phone

\* The CalendarService methods and the requests each sends on the client it
\* obtained from getAuthenticatedClient.
CalendarMethods ==
    [createEvent |-> <<"insert">>, getEvents |-> <<"list">>,
     updateEvent |-> <<"get", "update">>, deleteEvent |-> <<"delete">>]

\* A request that carries the bundle the client holds when it is sent.
RequestFor(phone, op, credentials) ==
    [user |-> phone, op |-> op, account |-> credentials[1].account]

\* calendar.events.<op>(...) on `auth`, the AuthService's one oauth2Client:
\* the request is signed with the client's credentials of that moment.
RequestCredentials(phone, credentials) == credentials

\* A CalendarService method starts for `phone`: getAuthenticatedClient sets
\* the stored bundle on the client; a bundle that is not expired signs the
\* method's first request, an expired one is refreshed first.
CalendarCall(phone, method) ==
    /\ cPc[phone] = "idle"
    /\ cOp' = [cOp EXCEPT ![phone] = method]
    /\ LET tokens == UserOf(phone).google_tokens
       IN  /\ clientCredentials' = tokens
           /\ IF Credential(UserOf(phone), now) = "expired"
              THEN /\ cPc' = [cPc EXCEPT ![phone] = "refresh"]
                   /\ UNCHANGED requests
              ELSE /\ cPc' = [cPc EXCEPT ![phone] = "first"]
                   /\ requests' = requests \cup
                         {RequestFor(phone, CalendarMethods[method][1],
                                     RequestCredentials(phone, tokens))}
    /\ UNCHANGED <<cBundle, dbVars, handlerVars, slotVars, calendarVars, turnVars,
                   authVars, updateVars, nlpVars, edgeVars>>

\* refreshAccessToken() returns the refreshed bundle of the account whose
\* refresh token it was called with, or fails: 'Authentication expired'.
ClientRefreshReturns(phone) ==
    /\ cPc[phone] = "refresh"
    /\ \/ /\ cBundle' = [cBundle EXCEPT ![phone] = BundleOf(phone, now)]
          /\ cPc' = [cPc EXCEPT ![phone] = "store"]
          /\ UNCHANGED cOp
       \/ /\ cPc' = [cPc EXCEPT ![phone] = "idle"]
          /\ cOp' = [cOp EXCEPT ![phone] = "none"]
          /\ UNCHANGED cBundle
    /\ UNCHANGED <<clientCredentials, requests, dbVars, handlerVars, slotVars,
                   calendarVars, turnVars, authVars, updateVars, nlpVars, edgeVars>>

\* updateUserAuthStatus(user.id, 'authenticated', credentials) returns; the
\* refreshed bundle is set on the client and signs the first request.
ClientRefreshStored(phone) ==
    /\ cPc[phone] = "store"
    /\ users' = updateUserAuthStatus(users, phone, "authenticated", cBundle[phone])
    /\ clientCredentials' = cBundle[phone]
    /\ requests' = requests \cup
          {RequestFor(phone, CalendarMethods[cOp[phone]][1],
                      RequestCredentials(phone, cBundle[phone]))}
    /\ cPc' = [cPc EXCEPT ![phone] = "first"]
    /\ cBundle' = [cBundle EXCEPT ![phone] = NoTokens]
    /\ UNCHANGED <<cOp, now, sessions, handlerVars, slotVars, calendarVars, turnVars,
                   authVars, updateVars, nlpVars, edgeVars>>

\* The provider answers the first request: updateEvent sends its second
\* request on the same client, the other methods are done.
ClientFirstAnswered(phone) ==
    /\ cPc[phone] = "first"
    /\ IF Len(CalendarMethods[cOp[phone]]) > 1
       THEN /\ requests' = requests \cup
                  {RequestFor(phone, CalendarMethods[cOp[phone]][2],
                              RequestCredentials(phone, clientCredentials))}
            /\ cPc' = [cPc EXCEPT ![phone] = "second"]
            /\ UNCHANGED cOp
       ELSE /\ cPc' = [cPc EXCEPT ![phone] = "idle"]
            /\ cOp' = [cOp EXCEPT ![phone] = "none"]
            /\ UNCHANGED requests
    /\ UNCHANGED <<clientCredentials, cBundle, dbVars, handlerVars, slotVars,
                   calendarVars, turnVars, authVars, updateVars, nlpVars, edgeVars>>

\* The provider answers the second request.
ClientSecondAnswered(phone) ==
    /\ cPc[phone] = "second"
    /\ cPc' = [cPc EXCEPT ![phone] = "idle"]
    /\ cOp' = [cOp EXCEPT ![phone] = "none"]
    /\ UNCHANGED <<clientCredentials, cBundle, requests, dbVars, handlerVars, slotVars,
                   calendarVars, turnVars, authVars, updateVars, nlpVars, edgeVars>>

ClientTick ==
    /\ now < ClientMaxTime
    /\ now' = now + 1
    /\ UNCHANGED <<users, sessions, handlerVars, slotVars, calendarVars, turnVars, flowVars>>

\* Both identities have completed the authorization flow.
ClientInit ==
    /\ SlotsIdle
    /\ now = 0
    /\ users = {[NewUserRow(p) EXCEPT !.auth_status = "authenticated",
                                      !.google_tokens = BundleOf(p, 0)] : p \in Phones}
    /\ sessions = {}
    /\ HandlersIdle
    /\ CalendarInit
    /\ TurnIdle
    /\ AuthIdle
    /\ ClientIdle
    /\ UpdateIdle
    /\ NlpIdle
    /\ EdgeIdle

ClientNext ==
    \/ \E phone \in Phones, method \in DOMAIN CalendarMethods : CalendarCall(phone, method)
    \/ \E phone \in Phones : ClientRefreshReturns(phone)
    \/ \E phone \in Phones : ClientRefreshStored(phone)
    \/ \E phone \in Phones : ClientFirstAnswered(phone)
    \/ \E phone \in Phones : ClientSecondAnswered(phone)
    \/ ClientTick

SpecClient == ClientInit /\ [][ClientNext]_vars

-----------------------------------------------------------------------------
(* Properties of the shared client *)

\* A refreshed bundle is stored on the record of the identity it was
\* refreshed for.
C19_RefreshStoredOnOwnRecord ==
    \A u \in users : u.google_tokens # NoTokens
                        => u.google_tokens[1].account = u.phone_number

\* C19: whatever the interleaving of two identities' messages, every request
\* made for an identity carries that identity's own credential bundle, and a
\* refreshed bundle is stored only on that identity's record.
C19_OwnCredentials ==
    /\ \A r \in requests : r.account = r.user
    /\ \A u \in users : u.google_tokens # NoTokens
                           => u.google_tokens[1].account = u.phone_number

-----------------------------------------------------------------------------
(* update_calendar_event on one event, from two messages of one identity    *)
(* that are handled at the same time                                       *)

\* The event both calls update, as the provider and the mirror hold it.
CreatedBy ==
    [Call("create_calendar_event", <<"A">>, 1, 2, NoId, <<>>, "absent")
        EXCEPT !.location = <<"Room 1">>]

InitialEvent ==
    [id |-> 1, title |-> CreatedBy.title, start |-> CreatedBy.startDateTime,
     end |-> CreatedBy.endDateTime, location |-> CreatedLocation(CreatedBy)]

InitialRow == MirrorRow(1, CreatedBy)

\* The arguments of an update_calendar_event call for that event.
UpdateArgs ==
    {[Call("update_calendar_event", title, start, end, 1, <<>>, "absent")
         EXCEPT !.location = location] :
        title \in {<<>>, <<"a", "b">>}, start \in {NoTime, 3}, end \in {NoTime, 2, 4},
        location \in {NoLocation, <<"">>, <<"Room 2">>}}

\* updateCalendarEvent: the dates are checked, then updateEvent asks the
\* provider for the event.
UpdateCalled(h, args) ==
    /\ uPc[h] = "idle"
    /\ uArgs' = [uArgs EXCEPT ![h] = args]
    /\ uPc' = [uPc EXCEPT ![h] = IF UpdateDateError(args) THEN "failed" ELSE "get"]
    /\ UNCHANGED <<uExisting, dbVars, handlerVars, slotVars, calendarVars, turnVars,
                   authVars, clientVars, nlpVars, edgeVars>>

\* calendar.events.get answers: the supplied fields replace those of the
\* event as read, and the whole resource is sent to calendar.events.update.
UpdateGot(h) ==
    /\ uPc[h] = "get"
    /\ \E answer \in BOOLEAN :
          IF answer
          THEN /\ uExisting' = [uExisting EXCEPT
                                   ![h] = {e \in remote : e.id = uArgs[h].eventId}]
               /\ uPc' = [uPc EXCEPT ![h] = "put"]
          ELSE /\ uPc' = [uPc EXCEPT ![h] = "failed"]
               /\ UNCHANGED uExisting
    /\ UNCHANGED <<uArgs, dbVars, handlerVars, slotVars, calendarVars, turnVars,
                   authVars, clientVars, nlpVars, edgeVars>>

\* calendar.events.update answers: the provider has replaced the event by the
\* resource, or has refused.
UpdatePut(h) ==
    /\ uPc[h] = "put"
    /\ \E answer \in BOOLEAN :
          IF answer
          THEN /\ remote' = Mutated(remote, "update", uArgs[h].eventId, uArgs[h],
                                    uExisting[h], NoId)
               /\ uPc' = [uPc EXCEPT ![h] = "mirror"]
          ELSE /\ uPc' = [uPc EXCEPT ![h] = "failed"]
               /\ UNCHANGED remote
    /\ UNCHANGED <<uArgs, uExisting, issuedIds, mirror, dbVars, handlerVars, slotVars,
                   turnVars, authVars, clientVars, nlpVars, edgeVars>>

\* UPDATE calendar_events SET ... WHERE google_event_id = ?
UpdateMirrored(h) ==
    /\ uPc[h] = "mirror"
    /\ mirror' = MirrorUpdated(mirror, uArgs[h].eventId, uArgs[h])
    /\ uPc' = [uPc EXCEPT ![h] = "done"]
    /\ UNCHANGED <<uArgs, uExisting, remote, issuedIds, dbVars, handlerVars, slotVars,
                   turnVars, authVars, clientVars, nlpVars, edgeVars>>

UpdateInit ==
    /\ SlotsIdle
    /\ DbInit
    /\ HandlersIdle
    /\ remote = {InitialEvent}
    /\ issuedIds = 1
    /\ mirror = {InitialRow}
    /\ TurnIdle
    /\ FlowIdle

UpdateNext ==
    \/ \E h \in Handlers, args \in UpdateArgs : UpdateCalled(h, args)
    \/ \E h \in Handlers : UpdateGot(h)
    \/ \E h \in Handlers : UpdatePut(h)
    \/ \E h \in Handlers : UpdateMirrored(h)

SpecUpdate == UpdateInit /\ [][UpdateNext]_vars

-----------------------------------------------------------------------------
(* Properties of update_calendar_event *)

\* The fields an update request supplies.
Supplied(args) ==
    {f \in {"title", "startDateTime", "endDateTime", "location"} :
        CASE f = "title" -> args.title # <<>>
          [] f = "startDateTime" -> args.startDateTime # NoTime
          [] f = "endDateTime" -> args.endDateTime # NoTime
          [] OTHER -> args.location # NoLocation}

\* The event and the row with exactly the supplied fields changed.
EventWith(event, args) ==
    [id |-> event.id,
     title |-> IF "title" \in Supplied(args) THEN args.title ELSE event.title,
     start |-> IF "startDateTime" \in Supplied(args)
               THEN args.startDateTime ELSE event.start,
     end |-> IF "endDateTime" \in Supplied(args) THEN args.endDateTime ELSE event.end,
     location |-> IF "location" \in Supplied(args)
                  THEN args.location[1] ELSE event.location]

\* Every call has completed, and the calls change different fields.
BothUpdated ==
    /\ \A h \in Handlers : uPc[h] = "done" /\ Supplied(uArgs[h]) # {}
    /\ \A g, h \in Handlers : g # h => Supplied(uArgs[g]) \cap Supplied(uArgs[h]) = {}

\* The event after the changes of all calls (they touch different fields, so
\* the order does not matter).
RECURSIVE EventAfter(_, _)
EventAfter(event, hs) ==
    IF hs = {} THEN event
    ELSE LET h == CHOOSE x \in hs : TRUE
         IN  EventAfter(EventWith(event, uArgs[h]), hs \ {h})

\* C18: two concurrent updates of different fields of one event: once both
\* have completed, the provider's event and the mirror row show both changes
\* and agree.
C18_NoLostUpdate ==
    BothUpdated => /\ remote = {EventAfter(InitialEvent, Handlers)}
                   /\ mirror = {RowOf(EventAfter(InitialEvent, Handlers))}

\* The lost update at the provider alone: title, start and end only.
C18_NoLostUpdateAtProvider ==
    (BothUpdated /\ \A h \in Handlers : uArgs[h].location = NoLocation)
        => remote = {EventAfter(InitialEvent, Handlers)}

\* Handler h has completed its update and no other call has started.
UpdatedAlone(h) == uPc[h] = "done" /\ \A g \in Handlers \ {h} : uPc[g] = "idle"

\* C20: an update changes exactly the supplied fields, at the provider and
\* in the mirror row, and leaves the other fields of both as they were.
C20_ExactlySuppliedFields ==
    \A h \in Handlers :
        UpdatedAlone(h) => /\ remote = {EventWith(InitialEvent, uArgs[h])}
                           /\ mirror = {RowOf(EventWith(InitialEvent, uArgs[h]))}

\* What holds of one update: the provider's event has exactly the supplied
\* fields changed, and the mirror row follows in title, start and end.
C20_ProviderExactMirrorWithoutLocation ==
    \A h \in Handlers :
        UpdatedAlone(h) =>
            /\ remote = {EventWith(InitialEvent, uArgs[h])}
            /\ mirror = {[RowOf(EventWith(InitialEvent, uArgs[h]))
                             EXCEPT !.location = InitialRow.location]}

-----------------------------------------------------------------------------
(* Dates of mirrored events *)

\* C21: every mirror row has its start before its end, whatever creations
\* and updates have succeeded.
C21_MirrorStartBeforeEnd == \A r \in mirror : r.start_time < r.end_time

\* An update that supplies both dates with start >= end never reaches the
\* provider.
C21_UpdateBothDatesRejected ==
    (tCall.name = "update_calendar_event" /\ UpdateDateError(tCall))
        => tPc \notin {"refresh", "remote", "mirror"}

\* A creation leaves a row with its start before its end.
C21_CreatedRowsOrdered ==
    [][\A r \in mirror' \ mirror :
          tCall.name = "create_calendar_event" => r.start_time < r.end_time]_vars

-----------------------------------------------------------------------------
(* Time suggestions and unknown functions *)

\* The loop takes the next call of the batch.
Dispatched == tPc = "loop" /\ tTodo' = tTodo - 1

\* The function names of the catalogue.
CatalogueFunctions ==
    {"create_calendar_event", "get_calendar_events", "update_calendar_event",
     "delete_calendar_event", "search_calendar_events", "get_time_suggestions"}

\* C22: a get_time_suggestions call with valid arguments from an
\* authenticated user passes validation and goes on to fetch the day's
\* events (from which the slot finder gives the slots of its success result).
C22_SuggestSlotsRuns ==
    [][(/\ Dispatched
        /\ tCall'.name = "get_time_suggestions"
        /\ tUser.auth_status = "authenticated")
          => tPc' \in {"refresh", "remote"}]_vars

\* C25: a call whose name is not in the catalogue gets a failure result that
\* names it, nothing is sent to the provider and nothing is written for it,
\* and the loop goes on with the rest of the batch.
C25_UnknownActionFails ==
    [][(Dispatched /\ tCall'.name \notin CatalogueFunctions)
          => /\ tPc' = "loop"
             /\ Len(tResults') = Len(tResults) + 1
             /\ LET result == tResults'[Len(tResults')]
                IN  /\ ~result.success
                    /\ result.error = "UnknownFunction"
                    /\ result.function = tCall'.name
             /\ tLog' = <<>>
             /\ UNCHANGED <<remote, issuedIds, mirror>>
             /\ (tTodo' > 0 => ENABLED Dispatch)]_vars

\* An unknown call came first and the creation after it succeeded.
C25_Witness ==
    /\ tPc = "loop"
    /\ Len(tResults) = 2
    /\ tResults[1].function = "send_email"
    /\ tResults[1].error = "UnknownFunction"
    /\ tResults[2].function = "create_calendar_event"
    /\ tResults[2].success

-----------------------------------------------------------------------------
(* The rule-based language processor (NLPProcessor) and the fallback that  *)
(* routes its result (MessageHandler.handleFallbackNLP).  Dates are counted *)
(* in hours; a text is modelled by what the processor's patterns find in it. *)

HoursPerDay == 24

\* 60 * 60 * 1000 milliseconds.
OneHour == 1

\* The clock readings at which messages are processed.
NlpNows == {10, 23, 25}

\* actionKeywords, in the order of Object.entries.
ActionWords == <<"create", "view", "edit", "delete">>

\* The start hours of timeKeywords.
timeKeywords == [morning |-> 9, afternoon |-> 13, evening |-> 18, night |-> 22]

\* results[0] of chrono.parse: the library's reading of the text.
ParsedDates ==
    {NoDateTime} \cup
    {[start |-> s, end |-> e] : s \in {14, 38, 47}, e \in {NoDate}} \cup
    {[start |-> s, end |-> s + 2] : s \in {14, 38, 47}}

Texts ==
    [actions : SUBSET {"create", "view", "edit", "delete"},
     eventType : {"general", "meeting"},
     parsed : ParsedDates,
     tomorrow : BOOLEAN,
     timeWord : {"none", "morning", "night"},
     title : BOOLEAN,
     location : BOOLEAN,
     attendees : BOOLEAN]

\* detectAction: the first keyword group with a keyword in the text.
detectAction(text) ==
    IF \E i \in 1..Len(ActionWords) : ActionWords[i] \in text.actions
    THEN ActionWords[CHOOSE i \in 1..Len(ActionWords) :
                        /\ ActionWords[i] \in text.actions
                        /\ \A j \in 1..(i - 1) : ActionWords[j] \notin text.actions]
    ELSE "unknown"

\* The calendar day of a date.
DateOf(date) == date \div HoursPerDay

\* Date.setFullYear(year, month, day): another day, the same time of day.
setFullYear(date, day) == day * HoursPerDay + (date % HoursPerDay)

\* Date.setHours(h, 0, 0, 0): the same day, another time of day.
setHours(date, h) == DateOf(date) * HoursPerDay + h

\* extractDateTime without the 'tomorrow' rule.
extractDateTimeAsParsed(text) ==
    IF text.parsed.start = NoDate
    THEN NoDateTime
    ELSE LET startDate == IF text.timeWord # "none"
                          THEN setHours(text.parsed.start, timeKeywords[text.timeWord])
                          ELSE text.parsed.start
         IN  [start |-> startDate,
              end |-> IF text.parsed.end # NoDate THEN text.parsed.end
                      ELSE startDate + OneHour]

\* extractDateTime: chrono's first result, moved to tomorrow when the text
\* says so and to the hour of a time-of-day word; the end is chrono's end, or
\* one hour after the start.
extractDateTime(text) ==
    IF text.parsed.start = NoDate
    THEN NoDateTime
    ELSE LET moved == IF text.tomorrow
                      THEN setFullYear(text.parsed.start, DateOf(now) + 1)
                      ELSE text.parsed.start
             startDate == IF text.timeWord # "none"
                          THEN setHours(moved, timeKeywords[text.timeWord])
                          ELSE moved
         IN  [start |-> startDate,
              end |-> IF text.parsed.end # NoDate THEN text.parsed.end
                      ELSE startDate + OneHour]

\* validateExtraction.  The title is never empty ('New Event' stands in for
\* it), so the third test of the source never fails.
validateExtraction(result) ==
    /\ result.action # "unknown"
    /\ ~(result.action = "create" /\ result.dateTime = NoDateTime)

\* calculateConfidence, in hundredths.
calculateConfidence(result) ==
    Min((IF result.action # "unknown" THEN 30 ELSE 0)
        + (IF result.dateTime # NoDateTime THEN 30 ELSE 0)
        + (IF result.title THEN 20 ELSE 0)
        + (IF result.eventType # "general" THEN 10 ELSE 0)
        + (IF result.location THEN 5 ELSE 0)
        + (IF result.attendees THEN 5 ELSE 0),
        100)

\* NLPProcessor.processMessage.
processMessage(text) ==
    LET result == [action |-> detectAction(text),
                   eventType |-> text.eventType,
                   dateTime |-> extractDateTime(text),
                   title |-> text.title,
                   location |-> text.location,
                   attendees |-> text.attendees,
                   isValid |-> FALSE,
                   confidence |-> 0]
    IN  [result EXCEPT !.isValid = validateExtraction(result),
                       !.confidence = calculateConfidence(result)]

\* nlpResult.confidence < 0.3, in hundredths.
ConfidenceThreshold == 30

\* The branch of handleFallbackNLP that requires both failures to refuse.
FallbackBranchLenient(nlpResult) ==
    IF ~nlpResult.isValid /\ nlpResult.confidence < ConfidenceThreshold THEN "notUnderstood"
    ELSE CASE nlpResult.action = "create" -> "handleCreateEvent"
           [] nlpResult.action = "view" -> "handleViewEvents"
           [] nlpResult.action = "edit" -> "handleEditEvent"
           [] nlpResult.action = "delete" -> "handleDeleteEvent"
           [] OTHER -> "unsure"

\* The branch handleFallbackNLP takes on a result.
FallbackBranch(nlpResult) ==
    IF ~nlpResult.isValid \/ nlpResult.confidence < ConfidenceThreshold THEN "notUnderstood"
    ELSE CASE nlpResult.action = "create" -> "handleCreateEvent"
           [] nlpResult.action = "view" -> "handleViewEvents"
           [] nlpResult.action = "edit" -> "handleEditEvent"
           [] nlpResult.action = "delete" -> "handleDeleteEvent"
           [] OTHER -> "unsure"

\* handleFallbackNLP, first statement: the processor reads the text.
NlpProcess ==
    /\ nPc = "received"
    /\ nResult' = processMessage(nText)
    /\ nPc' = "processed"
    /\ UNCHANGED <<systemPrompt, nText, slotVars, dbVars, handlerVars, calendarVars, turnVars,
                   authVars, clientVars, updateVars, edgeVars>>

\* handleFallbackNLP, the rest: the refusal or the handler of the action.
NlpRoute ==
    /\ nPc = "processed"
    /\ nPc' = FallbackBranch(nResult)
    /\ UNCHANGED <<systemPrompt, nText, nResult, slotVars, dbVars, handlerVars, calendarVars,
                   turnVars, authVars, clientVars, updateVars, edgeVars>>

NlpInit ==
    /\ SlotsIdle
    /\ now \in NlpNows
    /\ users = {}
    /\ sessions = {}
    /\ HandlersIdle
    /\ CalendarInit
    /\ TurnIdle
    /\ AuthIdle
    /\ ClientIdle
    /\ UpdateIdle
    /\ EdgeIdle
    /\ systemPrompt = initializeToolDefinitions
    /\ nText \in Texts
    /\ nResult = NoResult
    /\ nPc = "received"

NlpNext == NlpProcess \/ NlpRoute

SpecNlp == NlpInit /\ [][NlpNext]_vars

\* The fallback has taken one of its handlers.
FallbackActs ==
    nPc \in {"handleCreateEvent", "handleViewEvents", "handleEditEvent", "handleDeleteEvent",
             "unsure"}

\* C23: a fallback message that names a create action, carries a date
\* chrono can parse, says 'tomorrow' and gives no end yields one create
\* result, routed to the create handler, whose start is on the day after the
\* current date and whose end is exactly one hour after its start.
C23_FallbackCreateTomorrow ==
    (/\ nPc \notin {"idle", "received"}
     /\ "create" \in nText.actions
     /\ nText.parsed.start # NoDate
     /\ nText.parsed.end = NoDate
     /\ nText.tomorrow)
        => /\ nResult.action = "create"
           /\ DateOf(nResult.dateTime.start) = DateOf(now) + 1
           /\ nResult.dateTime.end = nResult.dateTime.start + OneHour
           /\ nPc \in {"processed", "handleCreateEvent"}

\* 'schedule meeting tomorrow 2pm' at 23:00, which the library read as 14:00
\* of the current day: the create handler has the result for the next day.
C23_Witness ==
    /\ nPc = "handleCreateEvent"
    /\ nText.actions = {"create"}
    /\ nText.tomorrow
    /\ nText.timeWord = "none"
    /\ nText.parsed = [start |-> 14, end |-> NoDate]
    /\ now = 23
    /\ nResult.dateTime = [start |-> 38, end |-> 39]

\* C24: the fallback takes a handler only when the extraction is valid and
\* the confidence is at least 0.3, refuses otherwise, and the confidence is
\* always between 0 and 1.
C24_FallbackActsOnlyWhenUnderstood ==
    /\ nResult.confidence \in 0..100
    /\ FallbackActs => (nResult.isValid /\ nResult.confidence >= 30)
    /\ nPc = "notUnderstood" => ~(nResult.isValid /\ nResult.confidence >= 30)
    /\ nPc \notin {"idle", "received"}
          => /\ nResult.isValid <=> (/\ nText.actions # {}
                                     /\ ("create" \in nText.actions => nText.parsed.start # NoDate))

\* A date without an action word: confidence 0.3, not valid, refused.
C24_Witness ==
    /\ nPc = "notUnderstood"
    /\ nText.actions = {}
    /\ nText.parsed.start # NoDate
    /\ nResult.confidence = 30
    /\ ~nResult.isValid

-----------------------------------------------------------------------------
(* The time anchor of the reasoning prompt *)

\* GeminiService.buildPrompt: the system prompt as the constructor left it,
\* followed by the context and the message, of which only the date matters here.
buildPrompt == [currentDateTime |-> systemPrompt.currentDateTime]

\* C26: whenever a turn sends its resolve request, the current date and time
\* named in the prompt is the time at which the message is processed.
C26_AnchorIsProcessingTime ==
    [][(tPc # "resolve" /\ tPc' = "resolve") => buildPrompt'.currentDateTime = now']_vars

-----------------------------------------------------------------------------
(* Read-only functions *)

ReadFunctions == {"get_calendar_events", "search_calendar_events", "get_time_suggestions"}

\* C28: while the call of the turn is a list, a search or a time suggestion,
\* no step changes the provider's events or the local mirror, and the only
\* request sent to the provider is a list.
C28_ReadsAreReadOnly ==
    [][tCall.name \in ReadFunctions
          => /\ UNCHANGED <<remote, issuedIds, mirror>>
             /\ tPc \in {"refresh", "remote", "mirror"} => tOp.op = "list"]_vars

\* A search has returned the event it found, which is still at the provider
\* and in the mirror.
C28_Witness ==
    /\ tPc = "loop"
    /\ Len(tResults) = 1
    /\ tResults[1].function = "search_calendar_events"
    /\ tResults[1].success
    /\ tResults[1].events # {}
    /\ \A e \in tResults[1].events : \E r \in remote : r.id = e.id
    /\ mirror # {}

-----------------------------------------------------------------------------
(* The user record across login, refresh, logout and revoke *)

\* C27: every change of the user's record leaves it logged out or revoked
\* with no credential bundle, or authenticated with exactly the bundle issued
\* at that moment; a refresh that succeeds leaves it authenticated with the
\* bundle the refresh returned.
C27_RecordAfterAuthChange ==
    [][/\ users' # users
          => \/ /\ TheUser'.auth_status \in {"logged_out", "revoked"}
                /\ TheUser'.google_tokens = NoTokens
             \/ /\ TheUser'.auth_status = "authenticated"
                /\ TheUser'.google_tokens = IssuedTokens(now)
       /\ (tPc = "refresh" /\ tPc' = "remote")
          => /\ TheUser'.auth_status = "authenticated"
             /\ TheUser'.google_tokens = IssuedTokens(now)
       /\ (Logout => TheUser'.auth_status = "logged_out")
       /\ (Revoke => TheUser'.auth_status = "revoked")]_vars

\* A refresh has stored a bundle other than the one the turn started with.
C27_Witness ==
    /\ tPc = "remote"
    /\ TheUser.auth_status = "authenticated"
    /\ TheUser.google_tokens = IssuedTokens(now)
    /\ tUser.google_tokens \notin {NoTokens, IssuedTokens(now)}

\* The record after a revoke that followed a login.
C27_Revoked ==
    /\ TheUser.auth_status = "revoked"
    /\ TheUser.google_tokens = NoTokens
    /\ tUser.auth_status = "authenticated"

\* C30: once the user is logged out or revoked, the record stays without
\* status 'authenticated' and without bundle until a login callback completes.
C30_LoggedOutUntilLogin ==
    [][(TheUser.auth_status \in {"logged_out", "revoked"} /\ ~LoginCompletes)
          => /\ TheUser'.auth_status # "authenticated"
             /\ TheUser'.google_tokens = NoTokens]_vars

-----------------------------------------------------------------------------
(* Reaching the authenticated state through the callback route *)

\* C29: a callback that arrives with the state token of the identity's
\* current link before its expiry passes the pending-request check, and when
\* the exchange succeeds the user's record becomes authenticated.
C29_CallbackAccepted ==
    [][/\ (/\ cbPc = "idle"
           /\ cbPc' # "idle"
           /\ JwtValid(cbState', now)
           /\ pendingAuth[cbState'.phoneNumber].state = cbState'
           /\ now < pendingAuth[cbState'.phoneNumber].expires)
          => cbPc' = "exchange"
       /\ (cbPc = "store" /\ cbPc' = "done")
          => \E u \in users' : /\ u.phone_number = cbState.phoneNumber
                               /\ u.auth_status = "authenticated"]_vars

\* With a pending_auth table in the database file the same callback passes
\* the check.
C29_AcceptedWithTable ==
    [][(/\ pendingTable
        /\ cbPc = "idle"
        /\ cbPc' # "idle"
        /\ JwtValid(cbState', now)
        /\ pendingAuth[cbState'.phoneNumber].state = cbState'
        /\ now < pendingAuth[cbState'.phoneNumber].expires)
          => cbPc' = "exchange"]_vars

-----------------------------------------------------------------------------
(* Slots and the working window *)

\* C31: every slot findAvailableSlots returns lies inside the working
\* window, whatever the busy intervals, those outside the window included.
C31_SlotsInsideWindow ==
    sfPc = "done" =>
        \A i \in 1..Len(sfSlots) : sfStart <= sfSlots[i].start /\ sfSlots[i].end <= sfEnd

-----------------------------------------------------------------------------
(* Failure results of a create *)

\* Turns of a user who has completed the login, over a database that may
\* reject a write. The clock stands at the moment of the login, so the access
\* token is valid throughout and no refresh is due.
StoreInit ==
    /\ SlotsIdle
    /\ now = 0
    /\ users = updateUserAuthStatus({NewUserRow(TurnPhone)}, TurnPhone,
                                    "authenticated", IssuedTokens(0))
    /\ sessions = {}
    /\ HandlersIdle
    /\ CalendarInit
    /\ TurnIdle
    /\ FlowIdle

StoreNext ==
    \/ StartTurn
    \/ BuildContext
    \/ ResolveText
    \/ ResolveCalls
    \/ ResolveFails
    \/ Dispatch
    \/ RemoteReturns
    \/ StoreWrite
    \/ Synthesize
    \/ SynthesizeFails
    \/ Fallback
    \/ Reply

SpecStore == StoreInit /\ [][StoreNext]_vars

\* The step in which a create gets its result.
CreateResulted ==
    /\ tCall.name = "create_calendar_event"
    /\ tPc \in {"refresh", "remote", "mirror"}
    /\ tPc' = "loop"
    /\ Len(tResults') = Len(tResults) + 1

\* C32: when a create gets a failure result, the provider has taken no
\* insert for it; and when the provider confirmed the insert, the result is a
\* success and the mirror holds a row for the new event.
C32_FailedCreateLeftNothing ==
    [][CreateResulted
          => LET result == tResults'[Len(tResults')]
                 inserted == \E i \in DOMAIN tLog : tLog[i].op = "insert" /\ tLog[i].outcome = "ok"
             IN  /\ ~result.success => ~inserted
                 /\ inserted => /\ result.success
                                /\ \E r \in mirror' : r.google_event_id = tOp.id]_vars

\* The mirror write that follows a confirmed insert is never the cause of a
\* failure when the database accepts it.
C32_StoredCreateSucceeds ==
    [][(CreateResulted /\ mirror' # mirror)
          => /\ tResults'[Len(tResults')].success
             /\ \E r \in mirror' : r.google_event_id = tOp.id]_vars

-----------------------------------------------------------------------------
(* Status and credentials of the user record *)

\* C33: in every state a user is 'authenticated' exactly when a credential
\* bundle is stored for them.
C33_AuthenticatedIffBundle ==
    \A u \in users : (u.auth_status = "authenticated") <=> (u.google_tokens # NoTokens)

\* A user logged out while a turn that started authenticated is refreshing.
C33_Witness ==
    /\ tPc = "refresh"
    /\ tUser.auth_status = "authenticated"
    /\ TheUser.auth_status = "logged_out"
    /\ TheUser.google_tokens = NoTokens

-----------------------------------------------------------------------------
(* Title search without a time range *)

\* The step in which the list request of a search or of a delete by title is
\* answered without an error.
TitleListAnswered ==
    /\ tPc = "remote"
    /\ tOp.op = "list"
    /\ tCall.name \in {"search_calendar_events", "delete_calendar_event"}
    /\ tCall.timeRange \in {"absent", "all"}
    /\ tOp' # tOp
    /\ ~(Len(tResults') = Len(tResults) + 1 /\ tResults'[Len(tResults')].error = "RemoteError")

\* C35: without a time range, or with 'all', the title resolution of a search
\* and of a delete works on all of the user's events: a search returns every
\* event whose title matches, and a delete finds none only when there is none.
C35_AllEventsConsidered ==
    [][TitleListAnswered
          => /\ tCall.name = "search_calendar_events"
                => {e.id : e \in tResults'[Len(tResults')].events} = {e.id : e \in AllMatches}
             /\ tCall.name = "delete_calendar_event"
                => (AllMatches = {} <=> (/\ Len(tResults') = Len(tResults) + 1
                                         /\ tResults'[Len(tResults')].error = "NotFound"))]_vars

\* The same for the matching events of the current day.
C35_TodaysEventsConsidered ==
    [][TitleListAnswered
          => /\ tCall.name = "search_calendar_events"
                => {e.id : e \in tResults'[Len(tResults')].events} = {e.id : e \in ListedMatches}
             /\ tCall.name = "delete_calendar_event"
                => (ListedMatches = {} <=> (/\ Len(tResults') = Len(tResults) + 1
                                            /\ tResults'[Len(tResults')].error = "NotFound"))]_vars

-----------------------------------------------------------------------------
(* The fallback and the calendar *)

\* C38: while the fallback handles a message no step changes the provider's
\* events or the mirror, and the only request it sends is a list.
C38_FallbackChangesNothing ==
    [][InFallback
          => /\ UNCHANGED <<remote, issuedIds, mirror>>
             /\ tOp'.op \in {"none", "list"}]_vars

\* The fallback has classified a message as a create and is about to send
\* the confirmation prompt, with events at the provider and in the mirror.
C38_Witness ==
    /\ tPc = "reply"
    /\ tReply = "ConfirmPrompt"
    /\ remote # {}
    /\ mirror # {}

-----------------------------------------------------------------------------
(* One pending authorization per identity *)

\* A later link was sent to the identity of the state token.
Superseded(state) ==
    \E later \in authStates :
        later.phoneNumber = state.phoneNumber /\ later.timestamp > state.timestamp

-----------------------------------------------------------------------------
(* The chat client and its restarts: initializeWhatsApp constructs a client *)
(* and registers the listeners, restartWhatsApp destroys the current client *)
(* and constructs the next, one action per await                            *)

\* Most clients constructed in one behaviour.
MaxClients == 3

\* initializeWhatsApp: this.whatsappClient = new Client(...), the listeners
\* are registered on it and initialize() is called.
initializeWhatsApp ==
    /\ issuedClients < MaxClients
    /\ issuedClients' = issuedClients + 1
    /\ whatsappClient' = issuedClients + 1
    /\ liveClients' = liveClients \cup {issuedClients + 1}

\* The client emits 'ready': the bot builds its message handler.
ClientReady(c) ==
    /\ c \in liveClients \ readyClients
    /\ readyClients' = readyClients \cup {c}
    /\ UNCHANGED <<whatsappClient, issuedClients, liveClients, rPc, rClient, deliveries>>
    /\ UNCHANGED <<slotVars, dbVars, handlerVars, calendarVars, turnVars,
                   authVars, clientVars, updateVars, nlpVars, msgVars>>

\* The client emits 'disconnected': the listener sets the timer of a restart.
Disconnected(c) ==
    /\ c \in readyClients
    /\ rPc["disconnect"] = "idle"
    /\ readyClients' = readyClients \ {c}
    /\ rPc' = [rPc EXCEPT !["disconnect"] = "timer"]
    /\ UNCHANGED <<whatsappClient, issuedClients, liveClients, rClient, deliveries>>
    /\ UNCHANGED <<slotVars, dbVars, handlerVars, calendarVars, turnVars,
                   authVars, clientVars, updateVars, nlpVars, msgVars>>

\* restartWhatsApp is called and runs to its first await: destroy() of the
\* client that this.whatsappClient names at that moment. The function has no
\* flag that tells a restart in progress.
RestartBegins(t) ==
    /\ rPc[t] = IF t = "disconnect" THEN "timer" ELSE "idle"
    /\ rPc' = [rPc EXCEPT ![t] = IF whatsappClient # NoClient THEN "destroy" ELSE "wait"]
    /\ rClient' = [rClient EXCEPT ![t] = whatsappClient]
    /\ UNCHANGED <<whatsappClient, issuedClients, liveClients, readyClients, deliveries>>
    /\ UNCHANGED <<slotVars, dbVars, handlerVars, calendarVars, turnVars,
                   authVars, clientVars, updateVars, nlpVars, msgVars>>

\* destroy() settles; an error of it is logged and the restart goes on to
\* the five-second wait.
DestroyReturns(t) ==
    /\ rPc[t] = "destroy"
    /\ liveClients' = liveClients \ {rClient[t]}
    /\ readyClients' = readyClients \ {rClient[t]}
    /\ rPc' = [rPc EXCEPT ![t] = "wait"]
    /\ UNCHANGED <<whatsappClient, issuedClients, rClient, deliveries>>
    /\ UNCHANGED <<slotVars, dbVars, handlerVars, calendarVars, turnVars,
                   authVars, clientVars, updateVars, nlpVars, msgVars>>

\* The wait ends and the restart calls initializeWhatsApp.
WaitEnds(t) ==
    /\ rPc[t] = "wait"
    /\ initializeWhatsApp
    /\ rPc' = [rPc EXCEPT ![t] = "idle"]
    /\ rClient' = [rClient EXCEPT ![t] = NoClient]
    /\ UNCHANGED <<readyClients, deliveries>>
    /\ UNCHANGED <<slotVars, dbVars, handlerVars, calendarVars, turnVars,
                   authVars, clientVars, updateVars, nlpVars, msgVars>>

\* An inbound message: every connected client emits 'message', and each
\* listener calls messageHandler.handleMessage.
MessageArrives ==
    /\ readyClients # {}
    /\ deliveries' = Cardinality(readyClients)
    /\ UNCHANGED <<whatsappClient, issuedClients, liveClients, readyClients, rPc, rClient>>
    /\ UNCHANGED <<slotVars, dbVars, handlerVars, calendarVars, turnVars,
                   authVars, clientVars, updateVars, nlpVars, msgVars>>

\* The constructor has called initializeWhatsApp.
RestartInit ==
    /\ SlotsIdle
    /\ DbInit
    /\ HandlersIdle
    /\ CalendarInit
    /\ TurnIdle
    /\ AuthIdle
    /\ ClientIdle
    /\ UpdateIdle
    /\ NlpIdle
    /\ MsgIdle
    /\ whatsappClient = 1
    /\ issuedClients = 1
    /\ liveClients = {1}
    /\ readyClients = {}
    /\ rPc = [t \in Triggers |-> "idle"]
    /\ rClient = [t \in Triggers |-> NoClient]
    /\ deliveries = 0

RestartNext ==
    \/ \E c \in 1..MaxClients : ClientReady(c)
    \/ \E c \in 1..MaxClients : Disconnected(c)
    \/ \E t \in Triggers : RestartBegins(t)
    \/ \E t \in Triggers : DestroyReturns(t)
    \/ \E t \in Triggers : WaitEnds(t)
    \/ MessageArrives

SpecRestart == RestartInit /\ [][RestartNext]_vars

\* C39: at most one client is live at any time, whatever restarts overlap,
\* and an inbound message reaches the message handler at most once.
C39_OneLiveClient ==
    /\ Cardinality(liveClients) <= 1
    /\ deliveries <= 1

\* A second live client appears only when a restart constructs a client
\* after another restart has replaced the one it destroyed.
C39_SecondClientFromOverlap ==
    [][(Cardinality(liveClients) <= 1 /\ Cardinality(liveClients') > 1)
          => \E t \in Triggers :
                /\ rPc[t] = "wait" /\ rPc'[t] = "idle"
                /\ rClient[t] # whatsappClient]_vars

-----------------------------------------------------------------------------
(* MessageHandler.handleMessage, from the transport's 'message' event to   *)
(* the reply: the filter, the database test, the session, the routing and  *)
(* the handlers, one action per await. The calendar effects of a batch of  *)
(* function calls are followed in Spec; here the turn is followed by its   *)
(* outcomes.                                                               *)

\* Last tick of the clock while messages are followed.
MsgMaxTime == 1

\* What message.from names.
SenderKinds == {"chat", "group", "status", "broadcast", "other"}

\* message.body, by the branch of the routing it takes.
MessageTexts ==
    {"/start", "/help", "/auth", "/status", "/logout", "/other", "connect google", "free"}

\* messageText.startsWith('/')
IsCommand(text) == text \in {"/start", "/help", "/auth", "/status", "/logout", "/other"}

\* isAuthKeyword: the lowercased text includes one of the keywords.
isAuthKeyword(text) == text = "connect google"

\* The replies of the steps that precede the routing, and of the outer catch.
ErrorReplies == {"Unavailable", "NoSession", "Sorry"}

\* A sendMessage that hands the text to the transport twice.
sendMessageTwice(replies, text, delivered) ==
    Append(Append(replies, [text |-> text, delivered |-> delivered]),
           [text |-> text, delivered |-> delivered])

\* sendMessage: client.sendMessage is awaited inside try/catch; a transport
\* failure is logged and not thrown, so the caller goes on either way.
sendMessage(replies, text, delivered) ==
    Append(replies, [text |-> text, delivered |-> delivered])

\* A handler sends its reply and returns; the finally block is next.
Answer(text) ==
    /\ \E delivered \in BOOLEAN : mReplies' = sendMessage(mReplies, text, delivered)
    /\ mPc' = "log"

\* The active sessions of a phone among rows, newest first.
ActiveIn(rows, phone, t) ==
    LET active == {r \in rows : MatchesActive(r, phone, t)}
    IN  {r \in active : \A q \in active : ~TextGreater(q.created_at, r.created_at)}

\* handleAuth: generateAuthUrl stores the request in the handler's map (the
\* insert into pending_auth fails where the table is missing, and is
\* ignored) and the link is sent; an error of it gets the error reply.
handleAuth ==
    \E ok \in BOOLEAN :
        IF ok
        THEN /\ pendingAuth' = [pendingAuth EXCEPT
                                   ![mPhone] = [state |-> SignedState(mPhone, now),
                                                expires |-> now + AuthTtl]]
             /\ pendingRows' = IF pendingTable
                               THEN [pendingRows EXCEPT
                                        ![mPhone] = [state |-> SignedState(mPhone, now),
                                                     expires_at |-> toISOString(now + AuthTtl)]]
                               ELSE pendingRows
             /\ authStates' = authStates \cup {SignedState(mPhone, now)}
             /\ Answer("AuthLink")
        ELSE /\ UNCHANGED <<pendingAuth, pendingRows, authStates>>
             /\ Answer("AuthError")

\* The 'message' listener calls handleMessage. Group, status and broadcast
\* messages, and senders that are no individual chat, return without a reply.
MessageReceived(phone, kind, text) ==
    /\ mPc = "idle"
    /\ mPhone' = phone
    /\ mKind' = kind
    /\ mText' = text
    /\ mNew' = (getUserByPhone(phone) = {})
    /\ mSession' = NoSession
    /\ mResolved' = FALSE
    /\ mReplies' = <<>>
    /\ mPc' = IF kind = "chat" THEN "dbtest" ELSE "log"
    /\ UNCHANGED <<dbVars, slotVars, handlerVars, calendarVars, turnVars,
                   authVars, clientVars, updateVars, nlpVars, restartVars>>

\* await this.database.run('SELECT 1')
DatabaseTest ==
    /\ mPc = "dbtest"
    /\ \E ok \in BOOLEAN :
          IF ok THEN mPc' = "session" /\ UNCHANGED mReplies
          ELSE Answer("Unavailable")
    /\ UNCHANGED <<mKind, mPhone, mText, mNew, mSession, mResolved>>
    /\ UNCHANGED <<dbVars, slotVars, handlerVars, calendarVars, turnVars,
                   authVars, clientVars, updateVars, nlpVars, restartVars>>

\* getOrCreateSession: the active session, or a new one for the user, who is
\* created first when the phone has no users row; null when a statement
\* fails or the new row is not found again.
GetOrCreateSession ==
    /\ mPc = "session"
    /\ LET active == getActiveSession(mPhone, now)
       IN  IF active # {}
           THEN /\ \E r \in active : mSession' = r.id
                /\ mPc' = "activity"
                /\ UNCHANGED <<users, sessions, mReplies>>
           ELSE \E outcome \in {"created", "insertFails", "lookupFails"} :
                   LET row == SessionRow(Cardinality(sessions) + 1, mPhone,
                                         now + SessionTtl, now)
                       known == IF getUserByPhone(mPhone) = {}
                                THEN users \cup {NewUserRow(mPhone)} ELSE users
                       found == ActiveIn(sessions \cup {row}, mPhone, now)
                   IN  CASE outcome = "lookupFails" ->
                               /\ UNCHANGED <<users, sessions, mSession>>
                               /\ Answer("NoSession")
                         [] outcome = "insertFails" ->
                               /\ users' = known
                               /\ UNCHANGED <<sessions, mSession>>
                               /\ Answer("NoSession")
                         [] OTHER ->
                               /\ Cardinality(sessions) < MaxSessions
                               /\ users' = known
                               /\ sessions' = sessions \cup {row}
                               /\ IF found = {}
                                  THEN UNCHANGED mSession /\ Answer("NoSession")
                                  ELSE /\ \E r \in found : mSession' = r.id
                                       /\ mPc' = "activity"
                                       /\ UNCHANGED mReplies
    /\ UNCHANGED <<now, mKind, mPhone, mText, mNew, mResolved>>
    /\ UNCHANGED <<slotVars, handlerVars, calendarVars, turnVars,
                   authVars, clientVars, updateVars, nlpVars, restartVars>>

\* await this.database.updateSessionActivity(session.id); an error goes to
\* the outer catch.
UpdateActivity ==
    /\ mPc = "activity"
    /\ \E ok \in BOOLEAN :
          IF ok
          THEN /\ sessions' = updateSessionActivity(sessions, mSession, now)
               /\ mPc' = "route"
               /\ UNCHANGED mReplies
          ELSE UNCHANGED sessions /\ Answer("Sorry")
    /\ UNCHANGED <<now, users, mKind, mPhone, mText, mNew, mSession, mResolved>>
    /\ UNCHANGED <<slotVars, handlerVars, calendarVars, turnVars,
                   authVars, clientVars, updateVars, nlpVars, restartVars>>

\* handleCommand: the handler of a known command, or the 'Unknown command'
\* reply.
HandleCommand ==
    /\ mPc = "route"
    /\ IsCommand(mText)
    /\ CASE mText = "/auth" -> handleAuth /\ UNCHANGED users
         [] mText = "/logout" ->
               /\ UNCHANGED <<pendingAuth, pendingRows, authStates>>
               /\ \E ok \in BOOLEAN :
                     IF ok
                     THEN /\ users' = updateUserAuthStatus(users, mPhone, "logged_out", NoTokens)
                          /\ Answer("LoggedOut")
                     ELSE UNCHANGED users /\ Answer("LogoutError")
         [] mText = "/status" ->
               /\ UNCHANGED <<users, pendingAuth, pendingRows, authStates>>
               /\ \E ok \in BOOLEAN :
                     Answer(IF ~ok THEN "StatusError"
                            ELSE IF getUserByPhone(mPhone) = {} THEN "NoAccount"
                            ELSE "Status")
         [] OTHER ->
               /\ UNCHANGED <<users, pendingAuth, pendingRows, authStates>>
               /\ Answer(CASE mText = "/start" -> "Start"
                           [] mText = "/help" -> "Help"
                           [] OTHER -> "UnknownCommand")
    /\ UNCHANGED <<now, sessions, mKind, mPhone, mText, mNew, mSession, mResolved>>
    /\ UNCHANGED <<pendingTable, consumed, cbPc, cbState, cbPending>>
    /\ UNCHANGED <<slotVars, handlerVars, calendarVars, turnVars,
                   clientVars, updateVars, nlpVars, restartVars>>

\* getUserByPhone, and createUser with the welcome message when there is no
\* row; then the auth keywords; then the natural-language handler. An error
\* of a statement goes to the outer catch.
RouteText ==
    /\ mPc = "route"
    /\ ~IsCommand(mText)
    /\ \E ok \in BOOLEAN :
          IF ~ok
          THEN /\ UNCHANGED <<users, pendingAuth, pendingRows, authStates>>
               /\ Answer("Sorry")
          ELSE IF getUserByPhone(mPhone) = {}
          THEN /\ users' = users \cup {NewUserRow(mPhone)}
               /\ UNCHANGED <<pendingAuth, pendingRows, authStates>>
               /\ Answer("Welcome")
          ELSE IF isAuthKeyword(mText)
          THEN handleAuth /\ UNCHANGED users
          ELSE /\ mPc' = "resolve"
               /\ UNCHANGED <<users, pendingAuth, pendingRows, authStates, mReplies>>
    /\ UNCHANGED <<now, sessions, mKind, mPhone, mText, mNew, mSession, mResolved>>
    /\ UNCHANGED <<pendingTable, consumed, cbPc, cbState, cbPending>>
    /\ UNCHANGED <<slotVars, handlerVars, calendarVars, turnVars,
                   clientVars, updateVars, nlpVars, restartVars>>

\* handleNaturalLanguageMessage: buildUserContext (which catches its own
\* errors) and geminiService.processMessage. A text response is sent; function
\* calls are executed in a loop that catches every error of a call; an error
\* of processMessage goes to the fallback.
ResolveMessage ==
    /\ mPc = "resolve"
    /\ mResolved' = TRUE
    /\ \E outcome \in {"text", "calls", "throws"} :
          CASE outcome = "text" -> Answer("Text")
            [] outcome = "calls" -> mPc' = "synthesize" /\ UNCHANGED mReplies
            [] OTHER -> mPc' = "fallback" /\ UNCHANGED mReplies
    /\ UNCHANGED <<mKind, mPhone, mText, mNew, mSession>>
    /\ UNCHANGED <<dbVars, slotVars, handlerVars, calendarVars, turnVars,
                   authVars, clientVars, updateVars, nlpVars, restartVars>>

\* processWithFunctionResults: its text is sent, or its error goes to the
\* fallback.
SynthesizeReply ==
    /\ mPc = "synthesize"
    /\ \E ok \in BOOLEAN :
          IF ok THEN Answer("Final") ELSE mPc' = "fallback" /\ UNCHANGED mReplies
    /\ UNCHANGED <<mKind, mPhone, mText, mNew, mSession, mResolved>>
    /\ UNCHANGED <<dbVars, slotVars, handlerVars, calendarVars, turnVars,
                   authVars, clientVars, updateVars, nlpVars, restartVars>>

\* handleFallbackNLP: one reply on each of its branches; an error it throws
\* gets the 'trouble understanding' reply of the inner catch.
FallbackReply ==
    /\ mPc = "fallback"
    /\ \E reply \in FallbackReplies \cup {"Trouble"} : Answer(reply)
    /\ UNCHANGED <<mKind, mPhone, mText, mNew, mSession, mResolved>>
    /\ UNCHANGED <<dbVars, slotVars, handlerVars, calendarVars, turnVars,
                   authVars, clientVars, updateVars, nlpVars, restartVars>>

\* The finally block logs the message.
LogMessage ==
    /\ mPc = "log"
    /\ mPc' = "done"
    /\ UNCHANGED <<mKind, mPhone, mText, mNew, mSession, mResolved, mReplies>>
    /\ UNCHANGED <<dbVars, slotVars, handlerVars, calendarVars, turnVars,
                   authVars, clientVars, updateVars, nlpVars, restartVars>>

\* handleMessage has returned.
MessageDone ==
    /\ mPc = "done"
    /\ mPc' = "idle"
    /\ mKind' = "none"
    /\ mPhone' = ""
    /\ mText' = "none"
    /\ mNew' = FALSE
    /\ mSession' = NoSession
    /\ mResolved' = FALSE
    /\ mReplies' = <<>>
    /\ UNCHANGED <<dbVars, slotVars, handlerVars, calendarVars, turnVars,
                   authVars, clientVars, updateVars, nlpVars, restartVars>>

MsgTick ==
    /\ now < MsgMaxTime
    /\ now' = now + 1
    /\ UNCHANGED <<users, sessions, slotVars, handlerVars, calendarVars, turnVars, flowVars>>

MessageInit ==
    /\ SlotsIdle
    /\ DbInit
    /\ HandlersIdle
    /\ CalendarInit
    /\ TurnIdle
    /\ FlowIdle

MessageNext ==
    \/ \E phone \in Phones, kind \in SenderKinds, text \in MessageTexts :
          MessageReceived(phone, kind, text)
    \/ DatabaseTest
    \/ GetOrCreateSession
    \/ UpdateActivity
    \/ HandleCommand
    \/ RouteText
    \/ ResolveMessage
    \/ SynthesizeReply
    \/ FallbackReply
    \/ LogMessage
    \/ MessageDone
    \/ MsgTick

SpecMessage == MessageInit /\ [][MessageNext]_vars

\* The message in hand came from an individual chat.
FromChat == mKind = "chat"

\* C36: every message of an individual chat gets exactly one reply: one call
\* of sendMessage has been made when the handler reaches its finally block,
\* on every path, and never a second one.
C36_ExactlyOneReply ==
    /\ Len(mReplies) <= 1
    /\ (FromChat /\ mPc \in {"log", "done"}) => Len(mReplies) = 1

\* A message whose synthesis failed after the batch, answered by the fallback.
C36_Witness ==
    /\ FromChat
    /\ mPc = "done"
    /\ mResolved
    /\ Len(mReplies) = 1
    /\ mReplies[1].text \in FallbackReplies

\* A message answered by the outer catch.
C36_CaughtOutside ==
    /\ FromChat
    /\ mPc = "done"
    /\ Len(mReplies) = 1
    /\ mReplies[1].text = "Sorry"

\* C37: the first message of an identity the bot has not seen, when it is no
\* command and no step of its handling failed, is answered with the welcome
\* message and is not given to intent resolution.
C37_FirstMessageWelcomed ==
    (/\ FromChat
     /\ mPc = "done"
     /\ mNew
     /\ ~IsCommand(mText)
     /\ Len(mReplies) = 1
     /\ mReplies[1].text \notin ErrorReplies \cup {"AuthError"})
        => (mReplies[1].text = "Welcome" /\ ~mResolved)

\* The welcome message is never sent: the users row exists by the time the
\* routing looks for it.
C37_WelcomeNeverSent ==
    \A i \in 1..Len(mReplies) : mReplies[i].text # "Welcome"

====
